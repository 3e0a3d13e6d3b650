------------------------------ MODULE CadSwaps ------------------------------
(***************************************************************************)
(* CadAlloc with a count of how often the head of a bin is swapped while a *)
(* pop of that bin is between its load and its compare-and-swap: how far   *)
(* the tag reaches.  The count is history: no step depends on it.          *)
(***************************************************************************)
EXTENDS HeapInv

VARIABLE lag    \* lag[t]: head words of its bin since thread t loaded one

lagVars == <<vars, lag>>

InPop(t) == pc[t] \in {"pop_next", "pop_cas"}

CountSwaps ==
  lag' = [t \in Threads |->
            IF ~InPop(t) \/ ~InPop(t)' THEN 0
            ELSE IF head'[r[t].bin] = head[r[t].bin] THEN lag[t] ELSE lag[t] + 1]

LagSpec ==
  /\ Init /\ lag = [t \in Threads |-> 0]
  /\ [][Next /\ CountSwaps]_lagVars

(* No pop that is still going on has been overtaken by as many swaps as there *)
(* are tags.                                                                  *)
InTime == \A t \in Threads : InPop(t) => lag[t] < MIN_ALIGN

-----------------------------------------------------------------------------
(* The tag of the head tells how many swaps a pop has been overtaken by, up   *)
(* to the number of tags; one that has not been overtaken knows the link that *)
(* the top block still holds.                                                 *)
UpToDate(t) ==
  /\ r[t].old \in Nat /\ lag[t] \in Nat
  /\ head[r[t].bin] % MIN_ALIGN = (r[t].old + lag[t]) % MIN_ALIGN
  /\ lag[t] = 0 => /\ head[r[t].bin] = r[t].old
                   /\ pc[t] = "pop_cas" => r[t].nxt = At(word1, AddrOf(r[t].old))

TagsTell == \A t \in Threads : InPop(t) => UpToDate(t)
=============================================================================
