---------------------------- MODULE SaveCustody ----------------------------
(***************************************************************************)
(* What sync promises about saves, whatever the platform: emulators may do *)
(* anything to the disk, but a sync call takes a save off it only when the *)
(* save was passed on first or the user agreed to lose it, and puts there  *)
(* only saves that were passed on.  A call writes in several steps and may *)
(* end after any of them.                                                  *)
(***************************************************************************)
CONSTANTS Places, Saves
VARIABLES
  disk,    \* pairs of a place and a save it holds
  safe,    \* the saves that were passed on: in RomM, or kept by the client
  agreed,  \* the saves the user agreed this call may replace
  busy     \* a call is writing

custodyVars == <<disk, safe, agreed, busy>>

TypeOK ==
  /\ disk \subseteq Places \X Saves
  /\ safe \subseteq Saves
  /\ agreed \subseteq Saves
  /\ busy \in BOOLEAN

SavesOn(d) == {p[2] : p \in d}

Play ==
  /\ ~busy
  /\ disk' \subseteq Places \X Saves
  /\ UNCHANGED <<safe, agreed, busy>>

\* Saves found on disk reach RomM, or the client's own store.
PassOn ==
  /\ ~busy
  /\ \E s \in SUBSET SavesOn(disk) : safe' = safe \cup s
  /\ UNCHANGED <<disk, agreed, busy>>

Begin ==
  /\ ~busy
  /\ busy' = TRUE
  /\ agreed' \subseteq SavesOn(disk)
  /\ UNCHANGED <<disk, safe>>

Replace ==
  /\ busy
  /\ SavesOn(disk \ disk') \subseteq safe \cup agreed
  /\ SavesOn(disk' \ disk) \subseteq safe \cup SavesOn(disk)
  /\ disk' \subseteq Places \X Saves
  /\ UNCHANGED <<safe, agreed, busy>>

End ==
  /\ busy
  /\ busy' = FALSE
  /\ agreed' = {}
  /\ UNCHANGED <<disk, safe>>

Init ==
  /\ disk \subseteq Places \X Saves
  /\ safe \subseteq Saves
  /\ agreed = {}
  /\ busy = FALSE

Next == Play \/ PassOn \/ Begin \/ Replace \/ End
Spec == Init /\ [][Next]_custodyVars
=============================================================================
