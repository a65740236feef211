------------------------ MODULE DistributedProgram ------------------------
(***************************************************************************)
(* A program that all ranks of a communicator execute (SPMD) on distributed*)
(* arrays, and what its arrays should contain.  An array of rank r has     *)
(* LocalSize(r) local cells followed by Overlaps cells for the ghosts of   *)
(* the left and Overlaps cells for the ghosts of the right neighbour.      *)
(***************************************************************************)
EXTENDS Partitioner, Integers, Sequences

CONSTANTS
  NProc,           (* number of ranks of the communicator                  *)
  GlobalSize,      (* number of elements of every distributed array        *)
  Overlaps,        (* width of the overlap on each side                    *)
  Arrays,          (* distributed arrays of the program                    *)
  Synchronizers,   (* synchronizers of the program                         *)
  SyncOf,          (* the synchronizer set for each array                  *)
  WriteKinds,      (* writes the program uses: copyFromGlobal, setValue    *)
  Policies,        (* the async policies the program uses                  *)
  Releases,        (* how the program releases arrays: destructor, reset   *)
  MaxOps           (* bound on the length of the program                   *)

Ranks == 0 .. (NProc - 1)
Ops == 1 .. MaxOps

(* The local range of each rank (Partitioner::splitRange).                 *)
localRange ==
  [r \in Ranks |-> [begin |-> splitBegin(GlobalSize, r, NProc),
                    end   |-> splitEnd(GlobalSize, r, NProc)]]

LocalBegin(r) == localRange[r].begin
LocalEnd(r) == localRange[r].end
LocalSize(r) == LocalEnd(r) - LocalBegin(r)

AsyncPolicy == {"synchronous", "deferred", "threadpool", "async"}

ASSUME ConstantsAssumption ==
  /\ NProc \in Nat \ {0}
  /\ GlobalSize \in Nat \ {0}
  /\ Overlaps \in Nat \ {0}
  /\ MaxOps \in Nat
  /\ SyncOf \in [Arrays -> Synchronizers]
  /\ WriteKinds \subseteq {"copyFromGlobal", "setValue"}
  /\ Policies \subseteq AsyncPolicy
  /\ Releases \subseteq {"destructor", "reset"}
  /\ \A r \in Ranks : Overlaps <= LocalSize(r)

-----------------------------------------------------------------------------
(* Operations of the program: writes that end with a synchronization,      *)
(* synchronizations of their own, and the release of an array.             *)

StartKinds == {"synchronizeByteArrayAsync"}

Writers == [kind : WriteKinds, array : Arrays,
            policy : {"synchronous"}]
Starters == [kind : StartKinds, array : Arrays,
             policy : Policies]
Releasers == [kind : Releases, array : Arrays, policy : {"none"}]

Operations == Writers \union Starters \union Releasers

(* The ring of ranks.                                                      *)
Left(r) == IF r > 0 THEN r - 1 ELSE NProc - 1
Right(r) == IF r < NProc - 1 THEN r + 1 ELSE 0

Cells(r) == 0 .. (LocalSize(r) + 2 * Overlaps - 1)
GhostCells(r) == LocalSize(r) .. (LocalSize(r) + 2 * Overlaps - 1)

(***************************************************************************)
(* A value names the element it was written to and the operation that wrote*)
(* it: array, global index, position in the program (0 initially).  Index  *)
(* GlobalSize stands for "no index": the uniform value of setValue, and    *)
(* ghosts that were never written.                                         *)
(***************************************************************************)
Values == Arrays \X (0 .. GlobalSize) \X (0 .. MaxOps)

Initial(a, gi) == <<a, gi, 0>>
NeverWritten(a) == <<a, GlobalSize, 0>>

(* What operation op, the k-th of the program, writes to element gi.       *)
Written(op, k, gi) ==
  <<op.array, IF op.kind = "setValue" THEN GlobalSize ELSE gi, k>>

IsExchange(op) == op.kind \in WriteKinds \union StartKinds

(* The last operation up to k that writes array a, 0 if there is none.     *)
LastWrite(prog, a, k) ==
  LET W == {j \in 1 .. k : prog[j].array = a /\ prog[j].kind \in WriteKinds} IN
  IF W = {} THEN 0 ELSE CHOOSE j \in W : \A i \in W : i <= j

(* Element gi of the global array a after the first k operations.          *)
GlobalValue(prog, a, k, gi) ==
  LET j == LastWrite(prog, a, k) IN
  IF j = 0 THEN Initial(a, gi) ELSE Written(prog[j], j, gi)

(* The global index that a ghost cell of rank r mirrors: the end of the    *)
(* left neighbour's range, the beginning of the right neighbour's range.   *)
GhostIndex(r, c) ==
  IF c < LocalSize(r) + Overlaps
  THEN (IF r > 0 THEN LocalBegin(r) ELSE GlobalSize)
         - Overlaps + (c - LocalSize(r))
  ELSE (IF r < NProc - 1 THEN LocalEnd(r) ELSE 0)
         + (c - LocalSize(r) - Overlaps)

(* What the ghosts of rank r should hold after exchange k of array a.      *)
ExpectedGhosts(prog, r, a, k) ==
  [c \in GhostCells(r) |-> GlobalValue(prog, a, k, GhostIndex(r, c))]

(* k is the last exchange of array a among the first n operations.         *)
LastExchange(prog, n, a, k) ==
  /\ k \in 1 .. n
  /\ prog[k].array = a
  /\ IsExchange(prog[k])
  /\ \A j \in (k + 1) .. n : prog[j].array = a => ~IsExchange(prog[j])
=============================================================================
