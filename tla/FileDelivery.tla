----------------------------- MODULE FileDelivery -----------------------------
(***************************************************************************)
(* What the transfer of one file promises to the application that dumps    *)
(* it: it ends, "ok" is said of whole files only and after the host stored *)
(* them, and "cancelled" of files the host removed, or of a file the host  *)
(* took the cancellation itself for a part of.                             *)
(***************************************************************************)
VARIABLES told, stored

vars == <<told, stored>>

Init == told = "none" /\ stored = "none"

Begin ==
    /\ stored = "none" \/ told # "none"
    /\ told' = "none" /\ stored' = "partial"

Store   == stored = "partial" /\ stored' = "complete" /\ UNCHANGED told
Discard ==
    stored \in {"partial", "spoilt"} /\ stored' = "deleted" /\ UNCHANGED told
Spoil   == stored = "partial" /\ stored' = "spoilt" /\ UNCHANGED told

Tell ==
    /\ told = "none"
    /\ \/ stored = "complete" /\ told' = "ok"
       \/ stored \in {"deleted", "spoilt"} /\ told' = "cancelled"
    /\ UNCHANGED stored

Settle == stored = "partial" /\ (Store \/ Discard \/ Spoil)

Next == Begin \/ Store \/ Discard \/ Spoil \/ Tell

Spec == Init /\ [][Next]_vars /\ WF_vars(Settle) /\ WF_vars(Tell)
=============================================================================
