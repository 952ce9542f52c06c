------------------------------ MODULE CpuMemory ------------------------------
(***************************************************************************)
(* What the processor is promised of RAM and ROM: one bus cycle at a time, *)
(* each reading or writing one word; a write has landed when its cycle     *)
(* ends, and a read returns the word as the writes before it left it.      *)
(* Nobody else changes that memory.                                        *)
(***************************************************************************)
CONSTANTS Ram, Rom, Lanes, Values

VARIABLES
  store,    \* the contents of RAM and ROM
  request,  \* the cycle in progress, or NoRequest
  reply     \* the word the last read cycle returned

Word      == [Lanes -> Values]
Request   == [loc : Ram \cup Rom, write : BOOLEAN, lanes : SUBSET Lanes, data : Word]
NoRequest == [loc |-> "none"]

Holds(r) == \A b \in r.lanes : store[r.loc][b] = r.data[b]

Init == store \in [Ram \cup Rom -> Word] /\ request = NoRequest /\ reply \in Word

Begin == request = NoRequest /\ request' \in Request /\ UNCHANGED <<store, reply>>

Land ==
  /\ request # NoRequest /\ request.write /\ request.loc \in Ram
  /\ store' = [store EXCEPT ![request.loc] =
                 [b \in Lanes |-> IF b \in request.lanes THEN request.data[b] ELSE @[b]]]
  /\ UNCHANGED <<request, reply>>

EndRead  == /\ request # NoRequest /\ ~request.write /\ request' = NoRequest
            /\ reply' = store[request.loc] /\ UNCHANGED store

\* What a write cycle returns is of no interest.
EndWrite == /\ request # NoRequest /\ request.write /\ request' = NoRequest
            /\ (request.loc \in Ram => Holds(request)) /\ UNCHANGED store

Next == Begin \/ Land \/ EndRead \/ EndWrite
Spec == Init /\ [][Next]_<<store, request, reply>>
=============================================================================
