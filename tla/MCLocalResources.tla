-------------------------- MODULE MCLocalResources --------------------------
(* LocalResources for TLC: the mouths of two frames, and the work of two other *)
(* runtimes.                                                                  *)
EXTENDS LocalResources, TLC

MCKind == [w \in Work |-> CASE w = "speech" -> "SpeechSynthesis"
                            [] w = "model" -> "LanguageModel"
                            [] OTHER -> "LipSync"]
MCAddress == [w \in Work |-> CASE w = "old" -> 1 [] w = "mouth" -> 2 [] OTHER -> 0]

\* presenters are interchangeable
Symmetry == Permutations(Presenters)
=============================================================================
