----------------------------- MODULE DurableMap -----------------------------
(***************************************************************************)
(* What one storage node promises to the master, whatever its store file   *)
(* looks like: a map from keys to values that it answers requests from     *)
(* (live), and the map it would come back with after a crash (durable).    *)
(*                                                                         *)
(* A PUT makes everything durable that has been acknowledged so far; a     *)
(* DELETE alone makes nothing durable.  While a PUT is at work, the key it *)
(* replaces may read as anything, and so may, after a crash, every key     *)
(* whose last change was not durable, for its old data has been given      *)
(* away, and every key whose data is torn in the first place.              *)
(* No other key is ever affected.  faults counts failing file operations;  *)
(* only they may lose a PUT's bytes, leave the PUT undurable, or let a     *)
(* start serve as if nothing were stored, in which case every key is one   *)
(* that the next PUT may write over and then makes durable as missing.     *)
(***************************************************************************)
EXTENDS Naturals

CONSTANTS Keys, Values,
          Absent,     \* the key is not there
          Torn        \* its bytes are no PUT's

NoPut == [key |-> Absent, value |-> Absent]

VARIABLES up, put, live, durable, faults

vars == <<up, put, live, durable, faults>>

Nothing == [k \in Keys |-> Absent]
Results == Values \cup {Absent, Torn}

Init == up = FALSE /\ put = NoPut /\ live = Nothing /\ durable = Nothing /\ faults = 0

Unsaved == {k \in Keys : live[k] # durable[k] \/ durable[k] = Torn}

(* Only keys of K change from f to g, and none appears or disappears. *)
ScribbledOn(f, g, K) ==
  /\ DOMAIN g = Keys
  /\ \A k \in Keys \ K : g[k] = f[k]
  /\ \A k \in K : g[k] \in Results /\ (g[k] = Absent <=> f[k] = Absent)

Idle == up /\ put = NoPut

-----------------------------------------------------------------------------
Begin ==
  /\ Idle
  /\ put' \in [key : Keys, value : Values]
  /\ UNCHANGED <<up, live, durable, faults>>

(* Bytes are written where the new value goes, perhaps for the last time. *)
Overwrite ==
  /\ up /\ put # NoPut
  /\ \/ put' \in {put, NoPut} /\ faults' \in {faults, faults + 1}
     \/ put' = [put EXCEPT !.value = Torn] /\ faults' = faults + 1
  /\ ScribbledOn(live, live', {put.key})
  /\ ScribbledOn(durable, durable', Unsaved \cup {put.key})
  /\ UNCHANGED up

(* The key gets its new value, or, if the bytes of that were lost, any.    *)
Replaced(k, v) ==
  /\ DOMAIN live' = Keys
  /\ live'[k] \in Results \ {Absent} /\ (v # Torn => live'[k] = v)
  /\ \A j \in Keys \ {k} : live'[j] = live[j]

Commit ==
  /\ up /\ put # NoPut
  /\ Replaced(put.key, put.value)
  /\ put' = NoPut
  /\ \/ durable' = live' /\ faults' = faults
     \/ durable' = durable /\ faults' = faults + 1
  /\ UNCHANGED up

Delete(k) ==
  /\ Idle /\ live[k] # Absent
  /\ live' = [live EXCEPT ![k] = Absent]
  /\ UNCHANGED <<up, put, durable, faults>>

(* A failing read, or a start that fails: in vain, or by serving without   *)
(* what is durable.                                                        *)
Fail ==
  /\ faults' = faults + 1
  /\ up' \in {up, TRUE}
  /\ UNCHANGED <<put, live, durable>>

Crash ==
  /\ up' = FALSE /\ put' = NoPut /\ live' = Nothing
  /\ ScribbledOn(durable, durable', IF put = NoPut THEN {} ELSE Unsaved \cup {put.key})
  /\ UNCHANGED faults

Start ==
  /\ ~up /\ up' = TRUE
  /\ live' = durable
  /\ UNCHANGED <<put, durable, faults>>

Wipe ==
  /\ ~up
  /\ durable' = Nothing
  /\ UNCHANGED <<up, put, live, faults>>

Next ==
  \/ Begin \/ Overwrite \/ Commit \/ Fail \/ Crash \/ Start \/ Wipe
  \/ \E k \in Keys : Delete(k)

Spec == Init /\ [][Next]_vars
=============================================================================
