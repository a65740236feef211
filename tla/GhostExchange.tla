--------------------------- MODULE GhostExchange ---------------------------
(***************************************************************************)
(* What the synchronization of a distributed array promises, without       *)
(* threads, futures or messages: after a rank has begun an exchange of an  *)
(* array its ghosts are pending until both neighbours have begun the same  *)
(* exchange; then they take, in one step, the values of the neighbours'    *)
(* boundaries as of that exchange.                                         *)
(***************************************************************************)
EXTENDS DistributedProgram

Pending == <<>>

VARIABLES
  program,   (* operations the ranks execute, in this order                *)
  begun,     (* begun[r]: number of operations rank r has begun            *)
  ghosts     (* ghosts[r][a]: ghosts of array a on rank r, or Pending      *)

vars == <<program, begun, ghosts>>

Init ==
  /\ program = <<>>
  /\ begun = [r \in Ranks |-> 0]
  /\ ghosts = [r \in Ranks |-> [a \in Arrays |->
                [c \in GhostCells(r) |-> NeverWritten(a)]]]

NextOp(r, op) ==
  /\ IF begun[r] < Len(program)
     THEN op = program[begun[r] + 1] /\ UNCHANGED program
     ELSE program' = Append(program, op)
  /\ begun' = [begun EXCEPT ![r] = @ + 1]

(* Rank r begins an exchange: the ghosts of the array become pending.      *)
Begin(r) ==
  \E op \in Writers \union Starters :
    /\ NextOp(r, op)
    /\ ghosts' = [ghosts EXCEPT ![r][op.array] = Pending]

(* Rank r releases an array.                                               *)
Release(r) == \E op \in Releasers : NextOp(r, op) /\ UNCHANGED ghosts

(* The last exchange of array a on rank r finishes.                        *)
Finish(r, a) ==
  /\ ghosts[r][a] = Pending
  /\ \E k \in 1 .. begun[r] :
       /\ LastExchange(program, begun[r], a, k)
       /\ begun[Left(r)] >= k
       /\ begun[Right(r)] >= k
       /\ ghosts' = [ghosts EXCEPT ![r][a] = ExpectedGhosts(program, r, a, k)]
  /\ UNCHANGED <<program, begun>>

Next ==
  \E r \in Ranks :
    \/ Begin(r)
    \/ Release(r)
    \/ \E a \in Arrays : Finish(r, a)

Spec == Init /\ [][Next]_vars
=============================================================================
