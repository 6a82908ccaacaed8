----------------------------- MODULE SyncClient -----------------------------
(***************************************************************************)
(* SyncVolumes under a client that follows docs/sync.md to the letter: it  *)
(* finishes every upload and stores every blob, and keeps the latest       *)
(* holding unit of each volume.  Its variables are a record of what it saw *)
(* and did, for the promises of the document that span several calls; once *)
(* it strays (it dies before an upload or a blob, or a restore fails) the  *)
(* record is dropped and any step of SyncVolumes may follow.               *)
(***************************************************************************)
EXTENDS SyncVolumes

VARIABLES
  kept,     \* kept[v]: v's saves in the latest holding unit that had any
  taken,    \* taken[v]: unclaimed saves a swap took off v, not claimed since
  looked,   \* looked[v]: v when the last collect saw it, or None
  fresh,    \* the games collected since a volume last changed
  strayed   \* the client did not follow the document

record == <<kept, taken, looked, fresh>>
clientVars == <<kept, taken, looked, fresh, strayed>>

\* sync.md:96: "keeps the latest `holding` per volume ... until those saves
\* are claimed".
KeepHolding(q) ==
  kept' = [v \in Volumes |-> IF v \in Shared(q.game) /\ OwnedOn(q, v, None) # {}
                             THEN OwnedOn(q, v, None) ELSE kept[v]]

Unclaimed(v, s) == {i \in s : st'.owner[v][i.name] = None}

ClientCollects(q) ==
  /\ Collect(q)
  /\ st' = CollectBlob(q)
  /\ library' = [h \in Games |-> library[h] \cup Uploads(q, h)]
  /\ KeepHolding(q)
  /\ taken' = [v \in Volumes |-> Unclaimed(v, taken[v])]
  /\ looked' = [v \in Volumes |-> IF v \in Shared(q.game) THEN vol[v] ELSE looked[v]]
  /\ fresh' = (IF q.claims = {} THEN fresh ELSE {}) \cup {q.game}

Swept(v) == {i \in vol[v] \ vol'[v] : WhoseSave(call.req, v, i.name) = None}

ClientWrites(v) ==
  /\ RestoreWrite(v)
  /\ taken' = [taken EXCEPT ![v] = @ \cup Swept(v)]
  /\ fresh' = {}
  /\ UNCHANGED <<kept, looked>>

ClientRestored ==
  /\ RestoreEnd
  /\ taken' = [v \in Volumes |-> Unclaimed(v, taken[v]) \ call.next[v]]
  /\ fresh' = {}
  /\ UNCHANGED <<kept, looked>>

NoSaves == [v \in Volumes |-> {}]
NotSeen == [v \in Volumes |-> None]

ClientInit == Init /\ kept = NoSaves /\ taken = NoSaves /\ looked = NotSeen /\ fresh = {} /\ strayed = FALSE

Follows ==
  \/ \E g \in Games, m \in Modes, c \in Claimable :
       \E k \in Companions[g] \cup {None} : ClientCollects(CollectRequest(g, m, c, k))
  \/ Restores /\ UNCHANGED record
  \/ \E v \in Volumes : ClientWrites(v)
  \/ ClientRestored
  \/ Emulator /\ fresh' = {} /\ UNCHANGED <<kept, taken, looked>>

Strays ==
  /\ Collects \/ RestoreFails
  /\ kept' = NoSaves /\ taken' = NoSaves /\ looked' = NotSeen /\ fresh' = {} /\ strayed' = TRUE

Anything == Next /\ UNCHANGED clientVars

ClientNext ==
  \/ ~strayed /\ Follows /\ UNCHANGED strayed
  \/ ~strayed /\ Strays
  \/ strayed /\ Anything

ClientSpec == ClientInit /\ [][ClientNext]_<<vars, clientVars>>

(***************************************************************************)
(* Properties.                                                             *)
(***************************************************************************)

\* sync.md:109-111: once every game was collected, with nothing written
\* since, no managed restore is refused with SIGIL_ERR_UNCOLLECTED.
UncollectedClears ==
  fresh = Games /\ call.op = "idle" =>
    \A g \in Games : \A u \in library[g] :
      RestoreCode(RestoreRequest(g, "managed", {}, None, u, {}, TRUE)) # "UNCOLLECTED"

\* sync.md:88, sigil.h:648: on a volume a collect has seen, unowned_changed
\* counts the unclaimed saves that are new or rewritten since that collect.
UnownedMemory ==
  \A g \in Games, m \in Modes : \A v \in Shared(g) :
    LET q == CollectRequest(g, m, {}, None)
    IN looked[v] # None => UnownedChanged(q, v) = OwnedOn(q, v, None) \ looked[v]

\* sync.md:95-97: after a managed swap "`holding` becomes the only copy of the
\* unclaimed saves": the latest holding of the volume still has every one.
LatestHoldingHasAll == \A v \in Volumes : taken[v] \subseteq kept[v]
=============================================================================
