------------------------------ MODULE MatMulIPC ------------------------------
(***************************************************************************)
(* project1-part2: a parent forks one child for each row of the product,   *)
(* and gets the rows back                                                  *)
(*   "pipe"   through a pipe (IPC-pipe.c),                                 *)
(*   "shmem"  in a matrix they share (IPC-shmem.c), or                     *)
(*   "mesg"   in a shared buffer for each row (IPC-mesg.c).                *)
(*                                                                         *)
(* A row is the sequence of its parts: what one write to the pipe carries, *)
(* or what memcpy has copied when another process looks. Writes of at most *)
(* PIPE_BUF bytes are atomic and the parent reads in the same pieces, so   *)
(* the pipe is a queue of messages. Children may be killed at any moment.  *)
(***************************************************************************)
EXTENDS Integers, Sequences, FiniteSets

CONSTANTS
    m,          \* the matrices are m x m
    Parts,      \* how many pieces a row is written in
    PipeSlots,  \* how many messages the pipe holds
    ForkFails,  \* whether fork may fail
    MaxKills    \* how many children may be killed

ASSUME MatMulAssumption ==
    /\ m \in Nat \ {0} /\ Parts \in Nat \ {0} /\ PipeSlots \in Nat \ {0}
    /\ ForkFails \in BOOLEAN /\ MaxKills \in Nat

Row == 0 .. m - 1
Part == 0 .. Parts - 1
Programs == {"pipe", "shmem", "mesg"}

VARIABLES
    program,
    semaphore,   \* the System V semaphore, not used by "mesg"
    pipe,
    C,           \* the result (of "mesg": D)
    buffer,      \* the segments of memids, of "mesg"
    child,       \* "none", "reserve", "number", "write", "exited", or killed:
                 \* "dead", or "torn" if some of its row is in the pipe
    part,        \* the piece a child is to write next
    parent,      \* "fork", "number", "row", "wait", "copy", "done", "failed"
                 \* (no fork) or "crashed"
    i,           \* the loop variable of the parent
    readI, readAns   \* the row number and the pieces the parent has read

childVars == <<child, part>>
readVars == <<readI, readAns>>
vars == <<program, semaphore, pipe, C, buffer, childVars, parent, i, readVars>>

\* The pieces of a row before anything is written to it, and at the end.
Nothing == [k \in Part |-> <<>>]
vector_mult(r) == [k \in Part |-> <<r, k>>]

\* The message that announces row r.
Number(r) == <<r, -1>>

\* What a number read from data may be: a row, or m for all others.
AnyNumber == 0 .. m

\* Mutant: two children may write at the same time.
semaphore_init_Two == semaphore = 2

semaphore_init == semaphore = 1
semaphore_reserve == semaphore > 0 /\ semaphore' = semaphore - 1
semaphore_release == semaphore' = semaphore + 1

Init ==
    /\ program \in Programs
    /\ semaphore_init
    /\ pipe = <<>>
    /\ C = [r \in Row |-> Nothing]
    /\ buffer = [r \in Row |-> Nothing]
    /\ child = [r \in Row |-> "none"]
    /\ part = [r \in Row |-> 0]
    /\ parent = "fork"
    /\ i = 0
    /\ readI = 0 /\ readAns = <<>>

------------------------------------------------------------------------------
(* The child of row r. It has a copy of A and B, so the product is its own.  *)

Reserve(r) ==
    /\ child[r] = "reserve"
    /\ semaphore_reserve
    /\ child' = [child EXCEPT ![r] = IF program = "pipe" THEN "number" ELSE "write"]
    /\ UNCHANGED <<program, pipe, C, buffer, part, parent, i, readVars>>

\* A write to the pipe waits until there is room; a copy to memory does not.
Write(message) ==
    /\ Len(pipe) < PipeSlots
    /\ pipe' = Append(pipe, message)

WriteNumber(r) ==
    /\ child[r] = "number"
    /\ Write(Number(r))
    /\ child' = [child EXCEPT ![r] = "write"]
    /\ UNCHANGED <<program, semaphore, C, buffer, part, parent, i, readVars>>

\* The next piece of the row goes out.
NextPart(r) ==
    /\ child[r] = "write"
    /\ part[r] < Parts
    /\ part' = [part EXCEPT ![r] = @ + 1]
    /\ UNCHANGED <<program, semaphore, child, parent, i, readVars>>

WritePart(r) ==
    /\ program = "pipe"
    /\ NextPart(r)
    /\ Write(vector_mult(r)[part[r]])
    /\ UNCHANGED <<C, buffer>>

CopyToMatrix(r) ==
    /\ program = "shmem"
    /\ NextPart(r)
    /\ C' = [C EXCEPT ![r][part[r]] = vector_mult(r)[part[r]]]
    /\ UNCHANGED <<pipe, buffer>>

CopyToBuffer(r) ==
    /\ program = "mesg"
    /\ NextPart(r)
    /\ buffer' = [buffer EXCEPT ![r][part[r]] = vector_mult(r)[part[r]]]
    /\ UNCHANGED <<pipe, C>>

\* The child frees its memory and exits.
Exit(r) ==
    /\ child[r] = "write"
    /\ part[r] = Parts
    /\ child' = [child EXCEPT ![r] = "exited"]
    /\ UNCHANGED <<program, pipe, C, buffer, part, parent, i, readVars>>

\* Mutant: the child keeps the semaphore.
ReleaseAndExit_Forgotten(r) ==
    program # "mesg" /\ Exit(r) /\ UNCHANGED semaphore

ReleaseAndExit(r) == program # "mesg" /\ Exit(r) /\ semaphore_release

DetachAndExit(r) == program = "mesg" /\ Exit(r) /\ UNCHANGED semaphore

Child(r) ==
    \/ Reserve(r)
    \/ WriteNumber(r) \/ WritePart(r) \/ CopyToMatrix(r) \/ CopyToBuffer(r)
    \/ ReleaseAndExit(r) \/ DetachAndExit(r)

\* Between the two operations on the semaphore.
Inside(r) == program # "mesg" /\ child[r] \in {"number", "write"}

Killed == {r \in Row : child[r] \in {"dead", "torn"}}

Kill(r) ==
    /\ Cardinality(Killed) < MaxKills
    /\ child[r] \in {"reserve", "number", "write"}
    /\ child' = [child EXCEPT ![r] =
                    IF program = "pipe" /\ @ = "write" /\ part[r] < Parts
                    THEN "torn" ELSE "dead"]
    /\ UNCHANGED <<program, pipe, C, buffer, part, parent, i, readVars>>

\* Mutant: the operations are done without SEM_UNDO.
Die_NoUndo(r) == Kill(r) /\ UNCHANGED semaphore

\* SEM_UNDO: what the child reserved and did not release is given back.
Die(r) ==
    /\ Kill(r)
    /\ semaphore' = semaphore + IF Inside(r) THEN 1 ELSE 0

------------------------------------------------------------------------------
(* The parent *)

ForkChild(start) ==
    /\ parent = "fork"
    /\ i < m
    /\ child' = [child EXCEPT ![i] = start]
    /\ i' = i + 1
    /\ UNCHANGED <<program, semaphore, pipe, C, buffer, part, parent, readVars>>

Fork == program # "mesg" /\ ForkChild("reserve")

\* Parent and child attach the buffer of the row.
ForkWithBuffer == program = "mesg" /\ ForkChild("write")

\* main returns -1 and leaves the children it has to themselves.
ForkError ==
    /\ ForkFails
    /\ parent = "fork"
    /\ i < m
    /\ parent' = "failed"
    /\ UNCHANGED <<program, semaphore, pipe, C, buffer, childVars, i, readVars>>

ForkedAll ==
    /\ parent = "fork"
    /\ i = m
    /\ i' = 0
    /\ parent' = IF program = "pipe" THEN "number" ELSE "wait"
    /\ UNCHANGED <<program, semaphore, pipe, C, buffer, childVars, readVars>>

\* read waits for a message, and for ever if none comes: the parent has the
\* writing end of the pipe open itself. Data read as a number is any number.
ReadNumber ==
    /\ parent = "number"
    /\ i < m
    /\ pipe # <<>>
    /\ IF Head(pipe)[2] = -1 THEN readI' = Head(pipe)[1] ELSE readI' \in AnyNumber
    /\ readAns' = <<>>
    /\ pipe' = Tail(pipe)
    /\ parent' = "row"
    /\ UNCHANGED <<program, semaphore, C, buffer, childVars, i>>

ReadPart ==
    /\ parent = "row"
    /\ Len(readAns) < Parts
    /\ pipe # <<>>
    /\ readAns' = Append(readAns, Head(pipe))
    /\ pipe' = Tail(pipe)
    /\ UNCHANGED <<program, semaphore, C, buffer, childVars, parent, i, readI>>

\* A row outside the matrix is written over other memory.
StoreRow ==
    /\ parent = "row"
    /\ Len(readAns) = Parts
    /\ IF readI \in Row
       THEN /\ C' = [C EXCEPT ![readI] = [k \in Part |-> readAns[k + 1]]]
            /\ parent' = "number"
       ELSE UNCHANGED C /\ parent' = "crashed"
    /\ i' = i + 1
    /\ UNCHANGED <<program, semaphore, pipe, buffer, childVars, readVars>>

\* All rows are read: the parent verifies them and frees the matrices.
VerifyRows ==
    /\ parent = "number"
    /\ i = m
    /\ parent' = "done"
    /\ UNCHANGED <<program, semaphore, pipe, C, buffer, childVars, i, readVars>>

\* wait(NULL) returns -1: no child is left.
NoChildLeft == \A r \in Row : child[r] \in {"exited", "dead"}

\* Mutant: one child that has exited is enough.
WaitAndVerify_Once ==
    /\ program = "shmem" /\ parent = "wait"
    /\ \E r \in Row : child[r] = "exited"
    /\ parent' = "done"
    /\ UNCHANGED <<program, semaphore, pipe, C, buffer, childVars, i, readVars>>

\* The matrix is verified where it is, then detached and removed.
WaitAndVerify ==
    /\ program = "shmem" /\ parent = "wait"
    /\ NoChildLeft
    /\ parent' = "done"
    /\ UNCHANGED <<program, semaphore, pipe, C, buffer, childVars, i, readVars>>

WaitLoop ==
    /\ program = "mesg" /\ parent = "wait"
    /\ NoChildLeft
    /\ parent' = "copy"
    /\ UNCHANGED <<program, semaphore, pipe, C, buffer, childVars, i, readVars>>

CopyRow ==
    /\ parent = "copy"
    /\ i < m
    /\ C' = [C EXCEPT ![i] = buffer[i]]
    /\ i' = i + 1
    /\ UNCHANGED <<program, semaphore, pipe, buffer, childVars, parent, readVars>>

VerifyCopy ==
    /\ parent = "copy"
    /\ i = m
    /\ parent' = "done"
    /\ UNCHANGED <<program, semaphore, pipe, C, buffer, childVars, i, readVars>>

Parent ==
    \/ Fork \/ ForkWithBuffer \/ ForkError \/ ForkedAll
    \/ ReadNumber \/ ReadPart \/ StoreRow \/ VerifyRows
    \/ WaitAndVerify
    \/ WaitLoop \/ CopyRow \/ VerifyCopy

Next == Parent \/ \E r \in Row : Child(r) \/ Die(r)

Spec == Init /\ [][Next]_vars

\* The scheduler runs every process that can go on. Each child wants the
\* semaphore once, so that it need not be a fair one. Nobody need be killed.
FairSpec == Spec /\ WF_vars(Parent) /\ \A r \in Row : WF_vars(Child(r))

------------------------------------------------------------------------------
Piece == {<<>>} \cup (Row \X (Part \cup {-1}))

TypeOK ==
    /\ program \in Programs /\ semaphore \in 0 .. 1
    /\ pipe \in Seq(Piece) /\ Len(pipe) <= PipeSlots
    /\ C \in [Row -> [Part -> Piece]] /\ buffer \in [Row -> [Part -> Piece]]
    /\ child \in [Row -> {"none", "reserve", "number", "write", "exited", "dead", "torn"}]
    /\ part \in [Row -> 0 .. Parts]
    /\ parent \in {"fork", "number", "row", "wait", "copy", "done", "failed", "crashed"}
    /\ i \in 0 .. m /\ readI \in AnyNumber /\ readAns \in Seq(Piece)

\* Every row that verify compares with the product.
verify(r) == C[r] = vector_mult(r)

Torn == \E r \in Row : child[r] = "torn"

\* However the children are scheduled, the parent takes every row from the
\* pipe, from the shared matrix or from its buffer whole and under its own
\* number, never overwrites it, and does not verify before all are there. A
\* child that is killed costs its own row only, unless it has written a part of
\* it to the pipe.
AsRowFarm ==
    INSTANCE RowFarm WITH
        rows <- {r \in Row : verify(r)},
        lost <- Killed,
        torn <- Torn,
        used <- parent = "done"

ImplementsRowFarm == AsRowFarm!Spec

\* The semaphore is neither lost nor doubled, whoever is killed and whenever:
\* it is 1 when nobody is between its operations, and otherwise one child is.
SemaphoreIsKept ==
    /\ semaphore = 1 <=> \A r \in Row : ~Inside(r)
    /\ \A r, s \in Row : Inside(r) /\ Inside(s) => r = s

\* What the parent has read of a row, and what is in the pipe after it.
Stream ==
    IF parent = "row" THEN <<Number(readI)>> \o readAns \o pipe ELSE pipe

\* The parent tells numbers from data by their position alone. So the stream is
\* made of whole rows, each after its number, but for the last one: what it
\* lacks is what the child that holds the semaphore has still to write.
RowsAreContiguous ==
    program = "pipe" /\ ~Torn /\ Stream # <<>> =>
        /\ Head(Stream)[2] = -1
        /\ \A x \in 1 .. Len(Stream) - 1 :
              IF Stream[x][2] = Parts - 1 THEN Stream[x + 1][2] = -1
              ELSE Stream[x + 1] = <<Stream[x][1], Stream[x][2] + 1>>
        /\ LET last == Stream[Len(Stream)]
           IN  last[2] < Parts - 1 =>
                   child[last[1]] = "write" /\ part[last[1]] = last[2] + 1

\* No process waits for ever: neither the parent for a row nor a child for the
\* semaphore or for room in the pipe, although the pipe may be smaller than the
\* result, nobody reads it before the last fork, and children may be killed
\* with the semaphore. Only the reader of the pipe waits for ever for the row of
\* a child that was killed; and when a fork has failed, or the parent has read
\* a torn row, children may wait for a reader that does not come.
EverybodyFinishes ==
    <>(\/ parent = "failed" \/ Torn
       \/ /\ NoChildLeft
          /\ parent = "done" \/ (program = "pipe" /\ Killed # {}))
=============================================================================
