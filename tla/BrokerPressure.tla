--------------------------- MODULE BrokerPressure ---------------------------
(***************************************************************************)
(* The pressure level of the resource broker and the degradation ladder    *)
(* that follows it (update_pressure_locked and escalate_degradation_locked *)
(* of crates/runtime-core/src/resource_broker.rs).  ResourceBroker extends *)
(* this module: each of its calls takes a sample of the utilization before *)
(* it does anything else.                                                  *)
(*                                                                         *)
(* A utilization is only compared with the four configured ratios, whose   *)
(* order ResourceBrokerConfig::validate asserts, so a sample is the band   *)
(* it falls in:                                                            *)
(*   0 <= green_reenter < 1 < amber_enter <= 2 <= amber_reenter < 3        *)
(*     < red_enter <= 4                                                    *)
(***************************************************************************)
EXTENDS Naturals, FiniteSetsExt

CONSTANTS
    RecoveryGreenSamples,  \* recovery_green_samples
    Ladder                 \* the length of DEGRADATION_ORDER

ASSUME PressureAssumption ==
    /\ RecoveryGreenSamples \in Nat \ {0}
    /\ Ladder \in Nat \ {0, 1}

VARIABLES
    pressure,      \* "Green", "Amber" or "Red"
    greenSamples,  \* green_samples, saturated at RecoveryGreenSamples: it is only compared with it
    degradation    \* degradation_count: the degradations in force are the first so many

pressureVars == <<pressure, greenSamples, degradation>>

Bands == 0 .. 4
Levels == {"Green", "Amber", "Red"}

PressureInit ==
    /\ pressure = "Green"
    /\ greenSamples = 0
    /\ degradation = 0

\* The hysteresis: a level is left downwards only below a lower ratio than the
\* one at which it was entered.
NewPressure(band) ==
    IF band = 4 /\ pressure # "Red" THEN "Red"
    ELSE IF pressure = "Green" /\ band >= 2 THEN "Amber"
    ELSE IF pressure = "Amber" /\ band = 0 THEN "Green"
    ELSE IF pressure = "Red" /\ band <= 2 THEN "Amber"
    ELSE pressure

Floor(level) == IF level = "Green" THEN 0 ELSE IF level = "Amber" THEN 1 ELSE 2

Lower(a, b) == IF a < b THEN a ELSE b
Higher(a, b) == IF a < b THEN b ELSE a

\* A mistake: a green sample starts the count again instead of adding to it.
UpdatePressureForgetsGreens(band, escalations) ==
    LET level   == NewPressure(band)
        floored == Higher(degradation, Floor(level))
    IN  /\ pressure' = level
        /\ greenSamples' = IF level = "Green" THEN Lower(1, RecoveryGreenSamples) ELSE 0
        /\ degradation' = Lower(Ladder, floored + escalations)

\* update_pressure_locked, followed in the same critical section by
\* `escalations' calls of escalate_degradation_locked.
UpdatePressure(band, escalations) ==
    LET level   == NewPressure(band)
        floored == Higher(degradation, Floor(level))
        greens  == IF level = "Green" THEN Lower(greenSamples + 1, RecoveryGreenSamples) ELSE 0
        recover == greens = RecoveryGreenSamples /\ floored > 0
    IN  /\ pressure' = level
        /\ greenSamples' = IF recover THEN 0 ELSE greens
        /\ degradation' = Lower(Ladder, (IF recover THEN floored - 1 ELSE floored) + escalations)

-----------------------------------------------------------------------------
(***************************************************************************)
(* The component by itself: the broker's calls supply samples, and submits *)
(* that could not be placed escalate.                                      *)
(***************************************************************************)
Sample(band) == UpdatePressure(band, 0)
SampleAndEscalate(band) == UpdatePressure(band, 1)

PressureNext == \E band \in Bands : Sample(band) \/ SampleAndEscalate(band)

PressureSpec == PressureInit /\ [][PressureNext]_pressureVars

PressureTypeOK ==
    /\ pressure \in Levels
    /\ greenSamples \in 0 .. RecoveryGreenSamples
    /\ degradation \in 0 .. Ladder

\* The broker never gives back a degradation that the present level still
\* requires (update_pressure_locked raises to the floor and recovers in the same
\* call): at Red at least two are in force, at Amber at least one.
FloorIsKept == degradation >= Floor(pressure)

Calm == Sample(0)

\* When the machine stays calm (from some time on every sample is at or below
\* green_reenter_ratio and nothing is submitted in vain) and the host goes on
\* sampling, every degradation is given back for good, however the ladder was
\* climbed.
CalmMachineRecovers ==
    WF_pressureVars(Calm) /\ <>[][Calm]_pressureVars => <>[](degradation = 0)
=============================================================================
