-------------------------- MODULE MatMulIPC_proofs --------------------------
(***************************************************************************)
(* For matrices of any size, rows of any number of pieces, pipes of any    *)
(* size and any number of killed children: first who holds the semaphore   *)
(* and what is in the pipe, then that the programs implement RowFarm.      *)
(***************************************************************************)
EXTENDS MatMulIPC, SequenceTheorems, FiniteSetTheorems, TLAPS

Element == Row \X (Part \cup {-1})

\* TypeOK, with no empty piece in the pipe.
Types ==
    /\ program \in Programs /\ semaphore \in 0 .. 1
    /\ pipe \in Seq(Element) /\ Len(pipe) <= PipeSlots
    /\ C \in [Row -> [Part -> Piece]] /\ buffer \in [Row -> [Part -> Piece]]
    /\ child \in [Row -> {"none", "reserve", "number", "write", "exited", "dead", "torn"}]
    /\ part \in [Row -> 0 .. Parts]
    /\ parent \in {"fork", "number", "row", "wait", "copy", "done", "failed", "crashed"}
    /\ i \in 0 .. m /\ readI \in AnyNumber /\ readAns \in Seq(Element)

\* Who has not been forked does nothing. A row is read for each number below m.
Unforked ==
    /\ parent = "fork" => \A r \in Row : r >= i => child[r] = "none"
    /\ parent = "row" => i < m

\* Where a child is, and how much it has written.
Protocol ==
    \A r \in Row :
        /\ child[r] = "reserve" => program # "mesg"
        /\ child[r] \in {"number", "torn"} => program = "pipe"
        /\ child[r] \in {"none", "reserve", "number"} => part[r] = 0
        /\ child[r] = "exited" => part[r] = Parts

Base == Types /\ SemaphoreIsKept /\ Unforked /\ Protocol

LEMMA Elements ==
    /\ Row \subseteq Nat /\ Part \subseteq Nat /\ 0 \in Row /\ 0 \in Part
    /\ Element \subseteq Piece
    /\ \A r \in Row : Number(r) \in Element
    /\ \A r \in Row, k \in Part : vector_mult(r)[k] = <<r, k>> /\ <<r, k>> \in Element
    /\ Nothing \in [Part -> Piece]
BY MatMulAssumption DEF Row, Part, Element, Piece, Number, vector_mult, Nothing

LEMMA PieceSeq == Seq(Element) \subseteq Seq(Piece)
BY Elements

LEMMA TypesAreTypes == Types => TypeOK
BY PieceSeq DEF Types, TypeOK

LEMMA InitBase == Init => Base
<1> SUFFICES ASSUME Init PROVE Base
  OBVIOUS
<1>1. Types
  BY Elements, MatMulAssumption
  DEF Init, Types, semaphore_init, AnyNumber
<1>2. SemaphoreIsKept /\ Unforked /\ Protocol
  BY DEF Init, SemaphoreIsKept, Unforked, Protocol, Inside, semaphore_init
<1> QED
  BY <1>1, <1>2 DEF Base

------------------------------------------------------------------------------
(* The children *)

States == {"none", "reserve", "number", "write", "exited", "dead", "torn"}

LEMMA ReserveBase ==
    ASSUME Base, NEW r \in Row, Reserve(r)
    PROVE  Base'
<1>1. /\ semaphore = 1 /\ semaphore' = 0 /\ child[r] = "reserve"
      /\ program # "mesg"
      /\ UNCHANGED <<program, pipe, C, buffer, part, parent, i, readVars>>
  BY DEF Base, Types, Protocol, Reserve, semaphore_reserve
<1>2. /\ child' \in [Row -> States]
      /\ child'[r] = IF program = "pipe" THEN "number" ELSE "write"
      /\ \A s \in Row \ {r} : child'[s] = child[s]
  BY DEF Base, Types, Reserve, States
<1>3. Types'
  BY <1>1, <1>2 DEF Base, Types, readVars, States
<1>4. SemaphoreIsKept'
  BY <1>1, <1>2 DEF Base, SemaphoreIsKept, Inside
<1>5. Unforked' /\ Protocol'
  BY <1>1, <1>2 DEF Base, Unforked, Protocol
<1> QED
  BY <1>3, <1>4, <1>5 DEF Base

LEMMA WriteNumberBase ==
    ASSUME Base, NEW r \in Row, WriteNumber(r)
    PROVE  Base'
<1>1. /\ child[r] = "number" /\ program = "pipe" /\ Len(pipe) < PipeSlots
      /\ pipe' = Append(pipe, Number(r))
      /\ UNCHANGED <<program, semaphore, C, buffer, part, parent, i, readVars>>
  BY DEF Base, Protocol, WriteNumber, Write
<1>2. /\ child' \in [Row -> States] /\ child'[r] = "write"
      /\ \A s \in Row \ {r} : child'[s] = child[s]
  BY DEF Base, Types, WriteNumber, States
<1>3. pipe' \in Seq(Element) /\ Len(pipe') <= PipeSlots
  BY <1>1, Elements, MatMulAssumption, AppendProperties DEF Base, Types
<1>4. Types'
  BY <1>1, <1>2, <1>3 DEF Base, Types, readVars, States
<1>5. \A s \in Row : Inside(s)' <=> Inside(s)
  BY <1>1, <1>2 DEF Inside
<1>6. SemaphoreIsKept'
  BY <1>1, <1>5 DEF Base, SemaphoreIsKept
<1>7. Unforked' /\ Protocol'
  BY <1>1, <1>2 DEF Base, Unforked, Protocol
<1> QED
  BY <1>4, <1>6, <1>7 DEF Base

LEMMA PartBase ==
    ASSUME Base, NEW r \in Row,
           WritePart(r) \/ CopyToMatrix(r) \/ CopyToBuffer(r)
    PROVE  Base'
<1>1. /\ NextPart(r) /\ part[r] \in Part
      /\ vector_mult(r)[part[r]] = <<r, part[r]>>
      /\ <<r, part[r]>> \in Element /\ <<r, part[r]>> \in Piece
  <2>1. NextPart(r) /\ part[r] \in 0 .. Parts /\ part[r] < Parts
    BY DEF WritePart, CopyToMatrix, CopyToBuffer, NextPart, Base, Types
  <2>2. part[r] \in Part
    BY <2>1, MatMulAssumption DEF Part
  <2> QED
    BY <2>1, <2>2, Elements
<1>2. /\ child[r] = "write" /\ part' = [part EXCEPT ![r] = @ + 1]
      /\ UNCHANGED <<program, semaphore, child, parent, i, readVars>>
  BY <1>1 DEF NextPart
<1>3. part' \in [Row -> 0 .. Parts]
  <2>1. part[r] + 1 \in 0 .. Parts
    BY <1>1, MatMulAssumption DEF Part
  <2> QED
    BY <1>2, <2>1 DEF Base, Types
<1>4. /\ pipe' \in Seq(Element) /\ Len(pipe') <= PipeSlots
      /\ C' \in [Row -> [Part -> Piece]] /\ buffer' \in [Row -> [Part -> Piece]]
  <2>1. CASE WritePart(r)
    <3>1. /\ pipe' = Append(pipe, <<r, part[r]>>) /\ Len(pipe) < PipeSlots
          /\ UNCHANGED <<C, buffer>>
      BY <1>1, <2>1 DEF WritePart, Write
    <3> QED
      BY <1>1, <3>1, MatMulAssumption, AppendProperties DEF Base, Types
  <2>2. CASE CopyToMatrix(r)
    <3>1. C' = [C EXCEPT ![r][part[r]] = <<r, part[r]>>] /\ UNCHANGED <<pipe, buffer>>
      BY <1>1, <2>2 DEF CopyToMatrix
    <3> QED
      BY <1>1, <3>1 DEF Base, Types
  <2>3. CASE CopyToBuffer(r)
    <3>1. /\ buffer' = [buffer EXCEPT ![r][part[r]] = <<r, part[r]>>]
          /\ UNCHANGED <<pipe, C>>
      BY <1>1, <2>3 DEF CopyToBuffer
    <3> QED
      BY <1>1, <3>1 DEF Base, Types
  <2> QED
    BY <2>1, <2>2, <2>3
<1>5. Types'
  BY <1>2, <1>3, <1>4 DEF Base, Types, readVars
<1>6. SemaphoreIsKept' /\ Unforked'
  BY <1>2 DEF Base, SemaphoreIsKept, Inside, Unforked
<1>7. Protocol'
  BY <1>2, <1>3 DEF Base, Types, Protocol
<1> QED
  BY <1>5, <1>6, <1>7 DEF Base

\* Leaving, by the end of the program or by a signal: the semaphore is given
\* back exactly if the child had it.
LEMMA LeaveBase ==
    ASSUME Base, NEW r \in Row,
           ReleaseAndExit(r) \/ DetachAndExit(r) \/ Die(r)
    PROVE  Base'
<1>1. /\ child[r] \in {"reserve", "number", "write"}
      /\ semaphore' = semaphore + IF Inside(r) THEN 1 ELSE 0
      /\ UNCHANGED <<program, pipe, C, buffer, part, parent, i, readVars>>
  <2>1. CASE ReleaseAndExit(r)
    BY <2>1 DEF ReleaseAndExit, Exit, Inside, semaphore_release
  <2>2. CASE DetachAndExit(r)
    BY <2>2 DEF DetachAndExit, Exit, Inside, Base, Types
  <2>3. CASE Die(r)
    BY <2>3 DEF Die, Kill
  <2> QED
    BY <2>1, <2>2, <2>3
<1>2. /\ child' \in [Row -> States] /\ child'[r] \in {"exited", "dead", "torn"}
      /\ child'[r] = "exited" => part[r] = Parts
      /\ child'[r] = "torn" => program = "pipe"
      /\ \A s \in Row \ {r} : child'[s] = child[s]
  BY DEF ReleaseAndExit, DetachAndExit, Exit, Die, Kill, Base, Types, States
<1>3. /\ ~Inside(r)' /\ \A s \in Row \ {r} : Inside(s)' <=> Inside(s)
  BY <1>1, <1>2 DEF Inside
<1>4. semaphore' \in 0 .. 1 /\ SemaphoreIsKept'
  <2>1. CASE Inside(r)
    <3>1. semaphore = 0 /\ semaphore' = 1
      BY <1>1, <2>1 DEF Base, Types, SemaphoreIsKept
    <3>2. \A s \in Row : ~Inside(s)'
      BY <1>3, <2>1 DEF Base, SemaphoreIsKept
    <3> QED
      BY <3>1, <3>2 DEF SemaphoreIsKept
  <2>2. CASE ~Inside(r)
    <3>1. semaphore' = semaphore /\ semaphore \in 0 .. 1
      BY <1>1, <2>2 DEF Base, Types
    <3>2. \A s \in Row : Inside(s)' <=> Inside(s)
      BY <1>3, <2>2
    <3> QED
      BY <3>1, <3>2 DEF Base, SemaphoreIsKept
  <2> QED
    BY <2>1, <2>2
<1>5. Types'
  BY <1>1, <1>2, <1>4 DEF Base, Types, readVars, States
<1>6. Unforked' /\ Protocol'
  BY <1>1, <1>2 DEF Base, Unforked, Protocol
<1> QED
  BY <1>4, <1>5, <1>6 DEF Base

------------------------------------------------------------------------------
(* The parent *)

LEMMA ForkBase ==
    ASSUME Base, Fork \/ ForkWithBuffer
    PROVE  Base'
<1>1. /\ parent = "fork" /\ i \in Row /\ i' = i + 1 /\ i + 1 \in 0 .. m
      /\ UNCHANGED <<program, semaphore, pipe, C, buffer, part, parent, readVars>>
  BY MatMulAssumption
  DEF Fork, ForkWithBuffer, ForkChild, Base, Types, Row
<1>2. /\ child' \in [Row -> States]
      /\ child[i] = "none" /\ child'[i] = IF program = "mesg" THEN "write" ELSE "reserve"
      /\ \A s \in Row \ {i} : child'[s] = child[s]
  <2>1. child[i] = "none"
    BY <1>1, Elements DEF Base, Unforked
  <2>2. child' = [child EXCEPT ![i] = IF program = "mesg" THEN "write" ELSE "reserve"]
    BY DEF Fork, ForkWithBuffer, ForkChild
  <2> QED
    BY <1>1, <2>1, <2>2 DEF Base, Types, States
<1>3. Types'
  BY <1>1, <1>2 DEF Base, Types, readVars, States
<1>4. \A s \in Row : Inside(s)' <=> Inside(s)
  BY <1>1, <1>2 DEF Inside
<1>5. SemaphoreIsKept'
  BY <1>1, <1>4 DEF Base, SemaphoreIsKept
<1>6. Unforked'
  BY <1>1, <1>2, Elements DEF Base, Unforked
<1>7. Protocol'
  BY <1>1, <1>2 DEF Base, Protocol
<1> QED
  BY <1>3, <1>5, <1>6, <1>7 DEF Base

LEMMA ReadBase ==
    ASSUME Base, ReadNumber \/ ReadPart
    PROVE  Base'
<1>1. /\ pipe # <<>> /\ pipe' = Tail(pipe) /\ i < m
      /\ UNCHANGED <<program, semaphore, C, buffer, childVars, i>>
  BY DEF ReadNumber, ReadPart, Base, Unforked
<1>2. Head(pipe) \in Element /\ Tail(pipe) \in Seq(Element) /\ Len(Tail(pipe)) <= PipeSlots
  BY <1>1, MatMulAssumption, HeadTailProperties DEF Base, Types
<1>3. Head(pipe)[1] \in AnyNumber
  <2>1. Head(pipe)[1] \in Row
    BY <1>2 DEF Element
  <2> QED
    BY <2>1, MatMulAssumption DEF Row, AnyNumber
<1>4. readI' \in AnyNumber /\ readAns' \in Seq(Element) /\ parent' = "row"
  <2>1. CASE ReadNumber
    BY <2>1, <1>3 DEF ReadNumber, Base, Types
  <2>2. CASE ReadPart
    BY <2>2, <1>2, AppendProperties DEF ReadPart, Base, Types
  <2> QED
    BY <2>1, <2>2
<1>5. Types'
  BY <1>1, <1>2, <1>4 DEF Base, Types, childVars
<1> QED
  BY <1>1, <1>4, <1>5 DEF Base, SemaphoreIsKept, Inside, Unforked, Protocol, childVars

LEMMA StoreRowBase ==
    ASSUME Base, StoreRow
    PROVE  Base'
<1>1. /\ parent = "row" /\ parent' \in {"number", "crashed"}
      /\ UNCHANGED <<program, semaphore, pipe, buffer, childVars, readVars>>
  BY DEF StoreRow
<1>2. \A k \in Part : readAns[k + 1] \in Piece
  <2>1. \A k \in Part : k + 1 \in 1 .. Len(readAns)
    BY MatMulAssumption DEF StoreRow, Part
  <2> QED
    BY <2>1, Elements DEF Base, Types
<1>3. C' \in [Row -> [Part -> Piece]]
  BY <1>2 DEF StoreRow, Base, Types
<1>4. i' \in 0 .. m
  BY MatMulAssumption DEF StoreRow, Base, Types, Unforked
<1> QED
  BY <1>1, <1>3, <1>4
  DEF Base, Types, SemaphoreIsKept, Inside, Unforked, Protocol, childVars, readVars

LEMMA RestOfParentBase ==
    ASSUME Base,
           \/ ForkError \/ ForkedAll \/ VerifyRows
           \/ WaitAndVerify \/ WaitLoop \/ CopyRow \/ VerifyCopy
    PROVE  Base'
<1>1. /\ parent' \in {"number", "wait", "copy", "done", "failed"}
      /\ UNCHANGED <<program, semaphore, pipe, buffer, childVars, readVars>>
  BY DEF ForkError, ForkedAll, VerifyRows, WaitAndVerify, WaitLoop, CopyRow, VerifyCopy
<1>2. i' \in 0 .. m
  BY MatMulAssumption
  DEF ForkError, ForkedAll, VerifyRows, WaitAndVerify, WaitLoop, CopyRow, VerifyCopy,
      Base, Types
<1>3. C' \in [Row -> [Part -> Piece]]
  <2>1. CASE CopyRow
    <3>1. i \in Row
      BY <2>1, MatMulAssumption DEF CopyRow, Base, Types, Row
    <3> QED
      BY <2>1, <3>1 DEF CopyRow, Base, Types
  <2>2. CASE ForkError \/ ForkedAll \/ VerifyRows \/ WaitAndVerify \/ WaitLoop \/ VerifyCopy
    BY <2>2
    DEF ForkError, ForkedAll, VerifyRows, WaitAndVerify, WaitLoop, VerifyCopy,
        Base, Types
  <2> QED
    BY <2>1, <2>2
<1> QED
  BY <1>1, <1>2, <1>3
  DEF Base, Types, SemaphoreIsKept, Inside, Unforked, Protocol, childVars, readVars

------------------------------------------------------------------------------
LEMMA NextBase == Base /\ [Next]_vars => Base'
<1> SUFFICES ASSUME Base, [Next]_vars PROVE Base'
  OBVIOUS
<1>1. CASE \E r \in Row : Child(r) \/ Die(r)
  BY <1>1, ReserveBase, WriteNumberBase, PartBase, LeaveBase DEF Child
<1>2. CASE Parent
  BY <1>2, ForkBase, ReadBase, StoreRowBase, RestOfParentBase DEF Parent
<1>3. CASE UNCHANGED vars
  BY <1>3
  DEF Base, Types, SemaphoreIsKept, Inside, Unforked, Protocol, vars, childVars, readVars
<1> QED
  BY <1>1, <1>2, <1>3 DEF Next

LEMMA Always == Spec => []Base
BY InitBase, NextBase, PTL DEF Spec

\* No step of a process, no failed fork and no killed child takes a variable out
\* of its range: the number of the row and of the piece stay inside the
\* matrix, the pipe holds what it can, and the semaphore is 0 or 1.
THEOREM IPCTypes == Spec => []TypeOK
<1>1. Base => TypeOK
  BY TypesAreTypes DEF Base
<1> QED
  BY <1>1, Always, PTL

\* However many children there are and whoever of them is killed, with or
\* without the semaphore: at most one is between the two operations, and the
\* semaphore is free exactly if nobody is.
THEOREM SemaphoreKept == Spec => []SemaphoreIsKept
<1>1. Base => SemaphoreIsKept
  BY DEF Base
<1> QED
  BY <1>1, Always, PTL
------------------------------------------------------------------------------
(* Rows in the pipe *)

\* What has to follow a piece in the stream.
Follows(x, y) ==
    IF x[2] = Parts - 1 THEN y[2] = -1 ELSE y = <<x[1], x[2] + 1>>

\* A sequence of whole rows, but for the end of the last one.
Whole(s) ==
    s # <<>> => /\ s[1][2] = -1
                /\ \A x \in 1 .. Len(s) - 1 : Follows(s[x], s[x + 1])

End(s) == s[Len(s)]

\* A row that is not at its end is being written, by who has written its last
\* piece; and who is writing finds its last piece at the end.
Ended(s) ==
    /\ s # <<>> /\ End(s)[2] < Parts - 1 =>
           child[End(s)[1]] = "write" /\ part[End(s)[1]] = End(s)[2] + 1
    /\ \A r \in Row : child[r] = "write" /\ part[r] < Parts =>
           s # <<>> /\ End(s) = <<r, part[r] - 1>>

\* The parent reads the pieces of the row it has the number of.
Reading ==
    parent = "row" =>
        /\ readI \in Row /\ Len(readAns) <= Parts
        /\ \A x \in 1 .. Len(readAns) : readAns[x] = <<readI, x - 1>>

Rows == program = "pipe" /\ ~Torn => Whole(Stream) /\ Ended(Stream) /\ Reading

LEMMA AppendWhole ==
    ASSUME NEW s \in Seq(Element), NEW e \in Element, Whole(s),
           s = <<>> => e[2] = -1,
           s # <<>> => Follows(End(s), e)
    PROVE  Append(s, e) \in Seq(Element) /\ Whole(Append(s, e)) /\ End(Append(s, e)) = e
<1> DEFINE a == Append(s, e)
<1>1. /\ a \in Seq(Element) /\ a # <<>> /\ Len(a) = Len(s) + 1
      /\ \A x \in 1 .. Len(s) : a[x] = s[x]
      /\ a[Len(s) + 1] = e /\ Len(s) \in Nat
  BY AppendProperties
<1> HIDE DEF a
<1>2. End(a) = e
  BY <1>1 DEF End
<1>3. Whole(a)
  <2>1. CASE s = <<>>
    BY <1>1, <2>1 DEF Whole
  <2>2. CASE s # <<>>
    <3>1. Len(s) \in Nat \ {0}
      BY <1>1, <2>2, EmptySeq
    <3>2. a[1][2] = -1
      BY <1>1, <2>2, <3>1 DEF Whole
    <3>3. ASSUME NEW x \in 1 .. Len(a) - 1 PROVE Follows(a[x], a[x + 1])
      <4>1. CASE x = Len(s)
        BY <1>1, <2>2, <3>1, <4>1 DEF End
      <4>2. CASE x # Len(s)
        <5>1. x \in 1 .. Len(s) - 1 /\ x \in 1 .. Len(s) /\ x + 1 \in 1 .. Len(s)
          BY <1>1, <3>1, <4>2
        <5> QED
          BY <1>1, <2>2, <5>1 DEF Whole
      <4> QED
        BY <4>1, <4>2
    <3> QED
      BY <3>2, <3>3 DEF Whole
  <2> QED
    BY <2>1, <2>2
<1> QED
  BY <1>1, <1>2, <1>3 DEF a

\* What is left when whole rows are taken from the front is whole, and ends alike.
LEMMA SuffixWhole ==
    ASSUME NEW h \in Seq(Element), NEW s \in Seq(Element), h # <<>>,
           Whole(h \o s), End(h)[2] = Parts - 1
    PROVE  Whole(s) /\ (s # <<>> => h \o s # <<>> /\ End(s) = End(h \o s))
<1> DEFINE c == h \o s
<1>1. /\ c \in Seq(Element) /\ Len(c) = Len(h) + Len(s)
      /\ Len(h) \in Nat \ {0} /\ Len(s) \in Nat
      /\ \A x \in 1 .. Len(h) + Len(s) : c[x] = IF x <= Len(h) THEN h[x] ELSE s[x - Len(h)]
  BY ConcatProperties, EmptySeq
<1> HIDE DEF c
<1>2. c # <<>>
  BY <1>1, EmptySeq
<1>3. SUFFICES ASSUME s # <<>> PROVE Whole(s) /\ End(s) = End(c)
  BY <1>2 DEF Whole, c
<1>4. Len(s) \in Nat \ {0}
  BY <1>1, <1>3, EmptySeq
<1>5. ASSUME NEW x \in 1 .. Len(s) PROVE c[Len(h) + x] = s[x]
  <2>1. /\ Len(h) + x \in 1 .. Len(h) + Len(s)
        /\ ~(Len(h) + x <= Len(h)) /\ (Len(h) + x) - Len(h) = x
    BY <1>1
  <2> QED
    BY <1>1, <2>1
<1>6. c[Len(h)] = End(h) /\ c[Len(h) + 1] = s[1]
  BY <1>1, <1>4, <1>5 DEF End
<1>7. \A x \in 1 .. Len(c) - 1 : Follows(c[x], c[x + 1])
  BY <1>2 DEF Whole, c
<1>8. s[1][2] = -1
  <2>1. Len(h) \in 1 .. Len(c) - 1
    BY <1>1, <1>4
  <2>2. Follows(c[Len(h)], c[Len(h) + 1])
    BY <1>7, <2>1
  <2> QED
    BY <1>6, <2>2 DEF Follows
<1>9. ASSUME NEW x \in 1 .. Len(s) - 1 PROVE Follows(s[x], s[x + 1])
  <2>1. /\ x \in 1 .. Len(s) /\ x + 1 \in 1 .. Len(s)
        /\ Len(h) + x \in 1 .. Len(c) - 1 /\ Len(h) + (x + 1) = (Len(h) + x) + 1
    BY <1>1, <1>4
  <2> QED
    BY <1>5, <1>7, <2>1
<1>10. End(s) = End(c)
  BY <1>1, <1>4, <1>5 DEF End
<1> QED
  BY <1>8, <1>9, <1>10 DEF Whole

\* What the parent has of a row, and after that the pipe.
Held == IF parent = "row" THEN <<Number(readI)>> \o readAns ELSE <<>>

LEMMA StreamIsSeq ==
    ASSUME Types, parent = "row" => readI \in Row
    PROVE  Held \in Seq(Element) /\ Stream = Held \o pipe /\ Stream \in Seq(Element)
<1>1. CASE parent = "row"
  <2>1. <<Number(readI)>> \in Seq(Element)
    <3>1. Number(readI) \in Element
      BY <1>1, Elements
    <3> QED
      BY <3>1
  <2>2. Held \in Seq(Element)
    BY <1>1, <2>1, ConcatProperties DEF Held, Types
  <2> QED
    BY <1>1, <2>2, ConcatProperties DEF Held, Stream, Types
<1>2. CASE parent # "row"
  BY <1>2, ConcatEmptySeq, EmptySeq DEF Held, Stream, Types
<1> QED
  BY <1>1, <1>2

\* A child's message comes at the end of the stream.
LEMMA WriteIsAppend ==
    ASSUME Types, parent = "row" => readI \in Row,
           NEW e \in Element, pipe' = Append(pipe, e), UNCHANGED <<parent, readVars>>
    PROVE  Stream' = Append(Stream, e)
<1>1. /\ Held \in Seq(Element) /\ pipe \in Seq(Element) /\ <<e>> \in Seq(Element)
      /\ Stream = Held \o pipe /\ Stream \in Seq(Element)
  BY StreamIsSeq DEF Types
<1>2. pipe' = pipe \o <<e>>
  BY <1>1, AppendIsConcat
<1>3. Stream' = Held \o (pipe \o <<e>>)
  <2>1. CASE parent = "row"
    BY <1>2, <2>1 DEF Stream, Held, readVars
  <2>2. CASE parent # "row"
    BY <1>1, <1>2, <2>2, ConcatEmptySeq, ConcatProperties DEF Stream, Held, readVars
  <2> QED
    BY <2>1, <2>2
<1>4. Held \o (pipe \o <<e>>) = (Held \o pipe) \o <<e>>
  BY <1>1, ConcatAssociative
<1> QED
  BY <1>1, <1>3, <1>4, AppendIsConcat

LEMMA HeadFirst ==
    ASSUME NEW s \in Seq(Element), s # <<>>
    PROVE  s = <<Head(s)>> \o Tail(s) /\ Head(s) = s[1]
<1>1. /\ Head(s) \in Element /\ Tail(s) \in Seq(Element) /\ Len(Tail(s)) = Len(s) - 1
      /\ \A x \in 1 .. Len(Tail(s)) : Tail(s)[x] = s[x + 1]
      /\ Len(s) \in Nat \ {0} /\ Head(s) = s[1]
  BY HeadTailProperties, EmptySeq
<1> DEFINE o == <<Head(s)>>
<1> DEFINE c == o \o Tail(s)
<1>2. o \in Seq(Element) /\ Len(o) = 1 /\ o[1] = Head(s)
  BY <1>1
<1> HIDE DEF o
<1>3. /\ c \in Seq(Element) /\ Len(c) = 1 + (Len(s) - 1)
      /\ \A x \in 1 .. 1 + (Len(s) - 1) :
            c[x] = IF x <= 1 THEN o[x] ELSE Tail(s)[x - 1]
  <2> DEFINE t == Tail(s)
  <2>1. t \in Seq(Element) /\ Len(t) = Len(s) - 1
    BY <1>1
  <2> HIDE DEF t
  <2>2. /\ o \o t \in Seq(Element) /\ Len(o \o t) = Len(o) + Len(t)
        /\ \A x \in 1 .. Len(o) + Len(t) :
              (o \o t)[x] = IF x <= Len(o) THEN o[x] ELSE t[x - Len(o)]
    BY <1>2, <2>1, ConcatProperties
  <2> QED
    BY <1>2, <2>1, <2>2 DEF t
<1> HIDE DEF c
<1>4. Len(c) = Len(s) /\ \A x \in 1 .. Len(s) : c[x] = s[x]
  BY <1>1, <1>2, <1>3
<1>5. c = s
  BY <1>3, <1>4, SeqEqual
<1> QED
  BY <1>1, <1>5 DEF c, o

\* Reading moves the border between the parent and the pipe.
LEMMA ReadKeepsStream ==
    ASSUME Types, Whole(Stream), Reading, ReadNumber \/ ReadPart
    PROVE  Stream' = Stream /\ Reading' 
<1>1. /\ pipe \in Seq(Element) /\ pipe # <<>> /\ pipe' = Tail(pipe) /\ parent' = "row"
      /\ pipe = <<Head(pipe)>> \o Tail(pipe) /\ Head(pipe) = pipe[1]
      /\ Head(pipe) \in Element /\ Tail(pipe) \in Seq(Element)
  BY HeadFirst, HeadTailProperties DEF ReadNumber, ReadPart, Types
<1>2. CASE ReadNumber
  <2>1. parent = "number" /\ readAns' = <<>> /\ Stream = pipe
    BY <1>2 DEF ReadNumber, Stream
  <2>2. Head(pipe)[2] = -1
    BY <1>1, <2>1 DEF Whole
  <2>3. readI' = Head(pipe)[1] /\ readI' \in Row /\ Head(pipe) = Number(readI')
    BY <1>1, <1>2, <2>2 DEF ReadNumber, Element, Number
  <2>4. <<Head(pipe)>> \o <<>> = <<Head(pipe)>>
    BY <1>1, ConcatEmptySeq
  <2>5. Stream' = Stream
    BY <1>1, <2>1, <2>3, <2>4 DEF Stream, Number
  <2>6. Reading'
    BY <2>1, <2>3, MatMulAssumption DEF Reading
  <2> QED
    BY <2>5, <2>6
<1>3. CASE ReadPart
  <2>1. /\ parent = "row" /\ Len(readAns) < Parts /\ readAns \in Seq(Element)
        /\ Len(readAns) \in Nat
        /\ readAns' = Append(readAns, Head(pipe)) /\ readI' = readI /\ readI \in Row
        /\ \A x \in 1 .. Len(readAns) : readAns[x] = <<readI, x - 1>>
    BY <1>3 DEF ReadPart, Types, Reading
  <2>2. /\ Held \in Seq(Element) /\ Stream = Held \o pipe
        /\ Held = <<Number(readI)>> \o readAns /\ <<Number(readI)>> \in Seq(Element)
    BY <2>1, StreamIsSeq, Elements DEF Held
  <2>3. Stream' = Stream
    <3>1. readAns' = readAns \o <<Head(pipe)>>
      BY <1>1, <2>1, AppendIsConcat
    <3>2. <<Number(readI)>> \o (readAns \o <<Head(pipe)>>) = Held \o <<Head(pipe)>>
      BY <1>1, <2>1, <2>2, ConcatAssociative
    <3>3. (Held \o <<Head(pipe)>>) \o Tail(pipe) = Held \o (<<Head(pipe)>> \o Tail(pipe))
      BY <1>1, <2>2, ConcatAssociative
    <3>4. Stream' = (<<Number(readI)>> \o readAns') \o Tail(pipe)
      BY <1>1, <2>1 DEF Stream, Number
    <3> QED
      BY <1>1, <2>2, <3>1, <3>2, <3>3, <3>4
  <2>4. Head(pipe) = <<readI, Len(readAns)>>
    <3> DEFINE n == Len(readAns) + 1
    <3>1. Len(Held) = n /\ \A x \in 1 .. n : Held[x] =
              IF x <= 1 THEN Number(readI) ELSE readAns[x - 1]
      BY <2>1, <2>2, ConcatProperties
    <3>2. Held[n] = <<readI, n - 2>>
      BY <2>1, <3>1 DEF Number
    <3>3. /\ Len(Stream) = n + Len(pipe) /\ Len(pipe) \in Nat \ {0}
          /\ \A x \in 1 .. n + Len(pipe) : Stream[x] =
                IF x <= n THEN Held[x] ELSE pipe[x - n]
      BY <1>1, <2>2, <3>1, ConcatProperties, EmptySeq
    <3> HIDE DEF n
    <3>4. n \in 1 .. Len(Stream) - 1 /\ Stream[n] = <<readI, n - 2>>
          /\ Stream[n + 1] = Head(pipe)
      <4>1. n \in Nat \ {0}
        BY <2>1 DEF n
      <4>2. n \in 1 .. n + Len(pipe) /\ n + 1 \in 1 .. n + Len(pipe) /\ (n + 1) - n = 1
        BY <3>3, <4>1
      <4>3. Stream[n] = Held[n] /\ Stream[n + 1] = pipe[1]
        BY <3>3, <4>1, <4>2
      <4> QED
        BY <1>1, <3>2, <3>3, <4>1, <4>3
    <3>5. Follows(Stream[n], Stream[n + 1])
      <4>1. Stream # <<>>
        BY <3>3, <3>4, EmptySeq
      <4> QED
        BY <3>4, <4>1 DEF Whole
    <3>6. n - 2 # Parts - 1
      BY <2>1, MatMulAssumption DEF n
    <3>7. Stream[n + 1] = <<readI, (n - 2) + 1>>
      BY <3>4, <3>5, <3>6 DEF Follows
    <3> QED
      BY <2>1, <3>4, <3>7 DEF n
  <2>5. Reading'
    <3>1. /\ Len(readAns') = Len(readAns) + 1
          /\ \A x \in 1 .. Len(readAns) : readAns'[x] = readAns[x]
          /\ readAns'[Len(readAns) + 1] = Head(pipe)
      BY <1>1, <2>1, AppendProperties
    <3> QED
      BY <2>1, <2>4, <3>1, MatMulAssumption DEF Reading
  <2> QED
    BY <2>3, <2>5
<1> QED
  BY <1>2, <1>3

\* A row that is complete is taken out of the stream, and the rest begins with
\* the number of the next one.
LEMMA StoreKeepsRows ==
    ASSUME Types, program = "pipe", Whole(Stream), Ended(Stream), Reading, StoreRow
    PROVE  Whole(Stream') /\ Ended(Stream)' /\ Reading'
<1>1. /\ parent = "row" /\ readI \in Row /\ Len(readAns) = Parts
      /\ readAns \in Seq(Element) /\ readAns[Parts] = <<readI, Parts - 1>>
      /\ parent' = "number" /\ pipe' = pipe /\ UNCHANGED childVars
  BY MatMulAssumption DEF StoreRow, Reading, Types
<1>2. /\ Held \in Seq(Element) /\ Stream = Held \o pipe /\ pipe \in Seq(Element)
      /\ Stream' = pipe
  BY <1>1, StreamIsSeq DEF Stream, Types
<1>3. Held # <<>> /\ End(Held) = <<readI, Parts - 1>>
  <2>1. <<Number(readI)>> \in Seq(Element) /\ Len(<<Number(readI)>>) = 1
    <3>1. Number(readI) \in Element
      BY <1>1, Elements
    <3> QED
      BY <3>1
  <2>2. /\ Len(Held) = 1 + Parts
        /\ \A x \in 1 .. 1 + Parts :
              Held[x] = IF x <= 1 THEN <<Number(readI)>>[x] ELSE readAns[x - 1]
    BY <1>1, <2>1, ConcatProperties DEF Held
  <2>3. Held[1 + Parts] = readAns[Parts]
    BY <2>2, MatMulAssumption
  <2> QED
    BY <1>1, <2>2, <2>3, MatMulAssumption, EmptySeq DEF End
<1>4. Whole(pipe) /\ (pipe # <<>> => Stream # <<>> /\ End(pipe) = End(Stream))
  BY <1>2, <1>3, SuffixWhole
<1>5. ASSUME NEW r \in Row, child[r] = "write", part[r] < Parts
      PROVE  pipe # <<>>
  <2>1. SUFFICES ASSUME pipe = <<>> PROVE FALSE
    OBVIOUS
  <2>2. Stream = Held
    BY <1>2, <2>1, ConcatEmptySeq
  <2>3. part[r] - 1 = Parts - 1
    BY <1>3, <1>5, <2>2 DEF Ended
  <2> QED
    BY <1>5, <2>3, MatMulAssumption DEF Types
<1>6. Ended(Stream)'
  BY <1>1, <1>2, <1>4, <1>5 DEF Ended, End, childVars
<1> QED
  BY <1>1, <1>2, <1>4, <1>6 DEF Reading

\* Only who holds the semaphore writes.
LEMMA WriteKeepsRows ==
    ASSUME Base, program = "pipe", Whole(Stream), Ended(Stream), Reading,
           NEW r \in Row, WriteNumber(r) \/ WritePart(r)
    PROVE  Whole(Stream') /\ Ended(Stream)' /\ Reading'
<1>1. /\ child[r] \in {"number", "write"} /\ child'[r] = "write"
      /\ \A s \in Row \ {r} : child'[s] = child[s] /\ part'[s] = part[s]
      /\ \A s \in Row \ {r} : child[s] \notin {"number", "write"}
      /\ UNCHANGED <<parent, readVars>>
  <2>1. /\ child[r] \in {"number", "write"} /\ child'[r] = "write"
        /\ UNCHANGED <<parent, readVars>>
        /\ \A s \in Row \ {r} : child'[s] = child[s] /\ part'[s] = part[s]
    BY DEF WriteNumber, WritePart, NextPart, Base, Types
  <2>2. \A s \in Row \ {r} : child[s] \notin {"number", "write"}
    BY <2>1 DEF Base, SemaphoreIsKept, Inside
  <2> QED
    BY <2>1, <2>2
<1>2. /\ Stream \in Seq(Element) /\ part[r] \in 0 .. Parts
      /\ (Stream # <<>> => End(Stream) \in Element)
  <2>1. Stream \in Seq(Element)
    BY StreamIsSeq DEF Base, Reading
  <2>2. Stream # <<>> => Len(Stream) \in 1 .. Len(Stream)
    BY <2>1, EmptySeq
  <2> QED
    BY <2>1, <2>2 DEF End, Base, Types
<1>3. PICK k \in Part \cup {-1} :
        /\ pipe' = Append(pipe, <<r, k>>) /\ <<r, k>> \in Element
        /\ part'[r] = k + 1 /\ part'[r] \in Nat
        /\ IF child[r] = "number" THEN k = -1 ELSE k = part[r] /\ part[r] < Parts
  <2>1. CASE WriteNumber(r)
    <3>1. /\ pipe' = Append(pipe, <<r, -1>>) /\ child[r] = "number"
          /\ part'[r] = 0 /\ <<r, -1>> \in Element
      BY <2>1 DEF WriteNumber, Write, Number, Base, Protocol, Element
    <3> WITNESS -1 \in Part \cup {-1}
    <3> QED
      BY <3>1
  <2>2. CASE WritePart(r)
    <3>1. part[r] \in Part \cup {-1} /\ vector_mult(r)[part[r]] = <<r, part[r]>>
          /\ <<r, part[r]>> \in Element
      BY <1>2, <2>2, Elements, MatMulAssumption DEF WritePart, NextPart, Part
    <3>2. child[r] = "write" /\ part[r] < Parts /\ part'[r] = part[r] + 1
          /\ pipe' = Append(pipe, <<r, part[r]>>)
      BY <2>2, <3>1 DEF WritePart, NextPart, Write, Base, Types
    <3> part[r] \in Part \cup {-1}
      BY <3>1
    <3> WITNESS part[r] \in Part \cup {-1}
    <3> QED
      BY <1>2, <3>1, <3>2
  <2> QED
    BY <2>1, <2>2
<1> DEFINE e == <<r, k>>
<1>4. Stream' = Append(Stream, e)
  BY <1>1, <1>3, WriteIsAppend DEF Base, Reading
<1>5. Stream = <<>> => e[2] = -1
  BY <1>1, <1>3 DEF Ended
<1>6. Stream # <<>> => Follows(End(Stream), e)
  <2>1. SUFFICES ASSUME Stream # <<>> PROVE Follows(End(Stream), e)
    OBVIOUS
  <2>2. /\ End(Stream) \in Row \X (Part \cup {-1})
        /\ End(Stream)[1] \in Row /\ End(Stream)[2] \in Part \cup {-1}
    BY <1>2, <2>1 DEF Element
  <2>3. CASE child[r] = "number"
    <3>1. ~(End(Stream)[2] < Parts - 1)
      BY <1>1, <2>1, <2>2, <2>3 DEF Ended
    <3>2. End(Stream)[2] = Parts - 1
      BY <2>2, <3>1, MatMulAssumption DEF Part
    <3> QED
      BY <1>3, <2>3, <3>2 DEF Follows
  <2>4. CASE child[r] = "write"
    <3>1. End(Stream) = <<r, part[r] - 1>> /\ k = part[r] /\ part[r] < Parts
      BY <1>3, <2>4 DEF Ended
    <3> QED
      BY <1>2, <3>1, MatMulAssumption DEF Follows
  <2> QED
    BY <1>1, <2>3, <2>4
<1>7. Whole(Stream') /\ Stream' # <<>> /\ End(Stream)' = e
  BY <1>2, <1>3, <1>4, <1>5, <1>6, AppendWhole, AppendProperties DEF End
<1>8. Ended(Stream)'
  <2>1. k \in Int /\ part'[r] - 1 = k
    BY <1>3 DEF Part
  <2>2. e[1] = r /\ e[2] = k
    OBVIOUS
  <2>3. End(Stream') = e
    BY <1>7 DEF End
  <2> HIDE DEF e
  <2>4. End(Stream')[2] < Parts - 1 =>
            child'[End(Stream')[1]] = "write" /\ part'[End(Stream')[1]] = End(Stream')[2] + 1
    BY <1>1, <1>3, <2>2, <2>3
  <2>5. \A s \in Row : child'[s] = "write" => s = r
    BY <1>1
  <2>6. e = <<r, part'[r] - 1>>
    BY <2>1 DEF e
  <2>7. \A s \in Row : child'[s] = "write" /\ part'[s] < Parts =>
            Stream' # <<>> /\ End(Stream') = <<s, part'[s] - 1>>
    BY <1>7, <2>3, <2>5, <2>6
  <2> QED
    BY <2>4, <2>7 DEF Ended, End
<1>9. Reading'
  BY <1>1 DEF Reading, readVars
<1> QED
  BY <1>7, <1>8, <1>9

LEMMA InitRows == Init => Rows
BY MatMulAssumption DEF Init, Rows, Stream, Whole, Ended, Reading

LEMMA ProgramStays == [Next]_vars => program' = program
BY DEF Next, vars, Parent, Child, Die, Kill, Exit, ReleaseAndExit, DetachAndExit,
       Reserve, WriteNumber, WritePart, CopyToMatrix, CopyToBuffer, NextPart,
       Fork, ForkWithBuffer, ForkChild, ForkError, ForkedAll, ReadNumber,
       ReadPart, StoreRow, VerifyRows, WaitAndVerify, WaitLoop, CopyRow, VerifyCopy

\* How a child can move.
LEMMA ChildSteps ==
    ASSUME Base, [Next]_vars, NEW r \in Row
    PROVE  \/ child'[r] = child[r]
           \/ /\ child[r] = "none" /\ child'[r] \in {"reserve", "write"}
              /\ program # "mesg" => child'[r] = "reserve"
           \/ /\ child[r] = "reserve" /\ child'[r] \in {"number", "write", "dead"}
              /\ program = "pipe" => child'[r] \in {"number", "dead"}
           \/ child[r] = "number" /\ child'[r] \in {"write", "dead"}
           \/ child[r] = "write" /\ child'[r] \in {"exited", "dead", "torn"}
<1>1. child \in [Row -> States]
  BY DEF Base, Types, States
<1>2. CASE UNCHANGED child
  BY <1>2
<1>3. CASE Fork \/ ForkWithBuffer
  <2>1. /\ i \in Row /\ child[i] = "none"
        /\ child' = [child EXCEPT ![i] = IF program = "mesg" THEN "write" ELSE "reserve"]
    BY <1>3, Elements, MatMulAssumption
    DEF Fork, ForkWithBuffer, ForkChild, Base, Types, Unforked, Row
  <2> QED
    BY <1>1, <2>1
<1>4. ASSUME NEW s \in Row, Child(s) \/ Die(s), ~UNCHANGED child
      PROVE  \/ child'[r] = child[r]
             \/ /\ child[r] = "reserve" /\ child'[r] \in {"number", "write", "dead"}
                /\ program = "pipe" => child'[r] \in {"number", "dead"}
             \/ child[r] = "number" /\ child'[r] \in {"write", "dead"}
             \/ child[r] = "write" /\ child'[r] \in {"exited", "dead", "torn"}
  <2>1. CASE r = s
    BY <1>1, <1>4, <2>1
    DEF Child, Die, Kill, Exit, ReleaseAndExit, DetachAndExit, Reserve, WriteNumber,
        WritePart, CopyToMatrix, CopyToBuffer, NextPart, States
  <2>2. CASE r # s
    BY <1>1, <1>4, <2>2
    DEF Child, Die, Kill, Exit, ReleaseAndExit, DetachAndExit, Reserve, WriteNumber,
        WritePart, CopyToMatrix, CopyToBuffer, NextPart, States
  <2> QED
    BY <2>1, <2>2
<1> QED
  BY <1>2, <1>3, <1>4
  DEF Next, vars, childVars, Parent, ForkError, ForkedAll, ReadNumber, ReadPart,
      StoreRow, VerifyRows, WaitAndVerify, WaitLoop, CopyRow, VerifyCopy

\* A torn row is never mended.
LEMMA TornStays == Base /\ [Next]_vars /\ Torn => Torn'
<1> SUFFICES ASSUME Base, [Next]_vars, NEW r \in Row, child[r] = "torn"
             PROVE  child'[r] = "torn"
  BY DEF Torn
<1> QED
  BY ChildSteps

LEMMA NextRows == Base /\ Rows /\ [Next]_vars => Rows'
<1> SUFFICES ASSUME Base, Rows, [Next]_vars, program' = "pipe", ~Torn'
             PROVE  Whole(Stream') /\ Ended(Stream)' /\ Reading'
  BY DEF Rows
<1>1. program = "pipe" /\ child \in [Row -> States] /\ child' \in [Row -> States]
  <2>1. Types'
    BY NextBase DEF Base
  <2> QED
    BY <2>1, ProgramStays DEF Base, Types, States
<1>2. ~Torn
  BY TornStays
<1>3. Whole(Stream) /\ Ended(Stream) /\ Reading /\ Types
  BY <1>1, <1>2 DEF Rows, Base
\* Nothing is written or read, and who writes goes on or is through.
<1>4. ASSUME Stream' = Stream, UNCHANGED <<part, readVars>>,
             parent' = "row" <=> parent = "row",
             \A r \in Row : /\ child'[r] = "write" => child[r] = "write"
                            /\ child[r] = "write" /\ part[r] < Parts => child'[r] = "write"
      PROVE  Whole(Stream') /\ Ended(Stream)' /\ Reading'
  <2>1. Stream # <<>> => End(Stream)[1] \in Row /\ End(Stream)[2] \in Part \cup {-1}
    <3>1. Stream \in Seq(Element)
      BY <1>3, StreamIsSeq DEF Reading
    <3>2. Stream # <<>> => Len(Stream) \in 1 .. Len(Stream)
      BY <3>1, EmptySeq
    <3> QED
      BY <3>1, <3>2 DEF End, Element
  <2>2. \A r \in Row : part[r] \in 0 .. Parts
    BY <1>3 DEF Types
  <2>3. ASSUME Stream # <<>>, End(Stream)[2] < Parts - 1
        PROVE  child'[End(Stream)[1]] = "write" /\ part[End(Stream)[1]] = End(Stream)[2] + 1
    <3>1. /\ End(Stream)[1] \in Row /\ child[End(Stream)[1]] = "write"
          /\ part[End(Stream)[1]] = End(Stream)[2] + 1
      BY <1>3, <2>1, <2>3 DEF Ended
    <3>2. End(Stream)[2] + 1 < Parts
      BY <2>1, <2>3, MatMulAssumption DEF Part
    <3> QED
      BY <1>4, <3>1, <3>2
  <2> QED
    BY <1>3, <1>4, <2>3 DEF Ended, End, Reading, readVars
<1>5. ASSUME NEW r \in Row, Child(r) \/ Die(r)
      PROVE  Whole(Stream') /\ Ended(Stream)' /\ Reading'
  <2>1. CASE WriteNumber(r) \/ WritePart(r)
    BY <1>1, <1>3, <2>1, WriteKeepsRows
  <2>2. CASE Reserve(r) \/ ReleaseAndExit(r) \/ Die(r)
    <3>1. UNCHANGED <<part, readVars, pipe, parent>>
      BY <2>2 DEF Reserve, ReleaseAndExit, Exit, Die, Kill
    <3>2. \A s \in Row : /\ child'[s] = "write" => child[s] = "write"
                         /\ child[s] = "write" /\ part[s] < Parts => child'[s] = "write"
      <4>1. \A s \in Row \ {r} : child'[s] = child[s]
        BY <1>1, <2>2 DEF Reserve, ReleaseAndExit, Exit, Die, Kill
      <4>2. CASE Reserve(r)
        BY <1>1, <4>1, <4>2 DEF Reserve
      <4>3. CASE ReleaseAndExit(r)
        <5>1. child'[r] = "exited" /\ part[r] = Parts
          BY <1>1, <4>3 DEF ReleaseAndExit, Exit
        <5> QED
          BY <4>1, <5>1, MatMulAssumption
      <4>4. CASE Die(r)
        <5>1. /\ child'[r] \in {"dead", "torn"}
              /\ child[r] = "write" /\ part[r] < Parts => child'[r] = "torn"
          BY <1>1, <4>4 DEF Die, Kill
        <5> QED
          BY <4>1, <5>1 DEF Torn
      <4> QED
        BY <2>2, <4>2, <4>3, <4>4
    <3>3. Stream' = Stream
      BY <3>1 DEF Stream, Number, readVars
    <3> QED
      BY <1>4, <3>1, <3>2, <3>3
  <2> QED
    BY <1>1, <1>5, <2>1, <2>2 DEF Child, CopyToMatrix, CopyToBuffer, DetachAndExit
<1>6. CASE ReadNumber \/ ReadPart
  <2>1. Stream' = Stream /\ Reading'
    BY <1>3, <1>6, ReadKeepsStream
  <2>2. UNCHANGED childVars
    BY <1>6 DEF ReadNumber, ReadPart
  <2> QED
    BY <1>3, <2>1, <2>2 DEF Ended, End, childVars
<1>7. CASE StoreRow
  BY <1>1, <1>3, <1>7, StoreKeepsRows
<1>8. CASE Fork
  <2>1. i \in Row /\ child[i] = "none" /\ UNCHANGED <<part, readVars, pipe, parent>>
        /\ child' = [child EXCEPT ![i] = "reserve"]
    BY <1>8, Elements, MatMulAssumption DEF Fork, ForkChild, Base, Types, Unforked, Row
  <2>2. Stream' = Stream
    BY <2>1 DEF Stream, Number, readVars
  <2> QED
    BY <1>1, <1>4, <2>1, <2>2
<1>9. CASE \/ ForkError \/ ForkedAll \/ VerifyRows
           \/ WaitAndVerify \/ WaitLoop \/ CopyRow \/ VerifyCopy \/ UNCHANGED vars
  <2>1. /\ UNCHANGED <<childVars, readVars, pipe>>
        /\ parent' = "row" <=> parent = "row"
    BY <1>9 DEF ForkError, ForkedAll, VerifyRows, WaitAndVerify, WaitLoop, CopyRow,
                VerifyCopy, vars
  <2>2. Stream' = Stream
    BY <2>1 DEF Stream, Number, readVars
  <2> QED
    BY <1>4, <2>1, <2>2 DEF childVars
<1> QED
  BY <1>1, <1>5, <1>6, <1>7, <1>8, <1>9 DEF Next, Parent, ForkWithBuffer

\* However long the rows and however small the pipe, and whoever is killed
\* before it has written a part of its row or after all of it: rows do not mix
\* in the pipe, and the parent finds a number wherever it looks for one.
THEOREM RowsNeverMix == Spec => []RowsAreContiguous
<1>1. Base /\ Rows => RowsAreContiguous
  <2> SUFFICES ASSUME Base, Rows, program = "pipe", ~Torn, Stream # <<>>
               PROVE  /\ Head(Stream)[2] = -1
                      /\ \A x \in 1 .. Len(Stream) - 1 :
                            IF Stream[x][2] = Parts - 1 THEN Stream[x + 1][2] = -1
                            ELSE Stream[x + 1] = <<Stream[x][1], Stream[x][2] + 1>>
                      /\ LET last == Stream[Len(Stream)]
                         IN  last[2] < Parts - 1 =>
                                 child[last[1]] = "write" /\ part[last[1]] = last[2] + 1
    BY DEF RowsAreContiguous
  <2>1. Whole(Stream) /\ Ended(Stream) /\ Stream \in Seq(Element)
    BY StreamIsSeq DEF Rows, Base, Reading
  <2>2. Head(Stream) = Stream[1]
    BY <2>1, HeadFirst
  <2> QED
    BY <2>1, <2>2 DEF Whole, Ended, End, Follows
<1>2. Init => Rows
  BY InitRows
<1>3. Base /\ Rows /\ [Next]_vars => Rows'
  BY NextRows
<1> QED
  BY <1>1, <1>2, <1>3, Always, PTL DEF Spec

------------------------------------------------------------------------------
(* The programs implement RowFarm. *)

Verified == {r \in Row : verify(r)}

\* In memory a row is there as far as its child has come.
Pieces(M) ==
    \A r \in Row, k \in Part : M[r][k] = IF k < part[r] THEN <<r, k>> ELSE <<>>

Memory ==
    /\ program = "pipe" => parent \notin {"wait", "copy"}
    /\ program = "shmem" => Pieces(C) /\ parent \in {"fork", "failed", "wait", "done"}
    /\ program = "mesg" =>
        /\ Pieces(buffer)
        /\ parent \in {"fork", "failed", "wait", "copy", "done"}
        /\ parent \in {"fork", "failed", "wait"} => \A r \in Row : ~verify(r)
        /\ parent = "copy" =>
              \A r \in Row : /\ r < i /\ child[r] = "exited" => verify(r)
                             /\ r >= i => ~verify(r)
        /\ parent = "wait" => i = 0
    /\ program # "pipe" /\ parent \in {"copy", "done"} => NoChildLeft

\* A child that has not given the number of its row.
Late(r) == child[r] \in {"none", "reserve", "number"}

IsNumber(s, x) == s[x][2] = -1

\* Each row is announced once, by its child and before it is stored, and the
\* parent counts the rows it has stored.
Numbers ==
    program = "pipe" /\ ~Torn =>
        /\ \A x \in 1 .. Len(Stream) :
              IsNumber(Stream, x) => ~verify(Stream[x][1]) /\ ~Late(Stream[x][1])
        /\ \A x, y \in 1 .. Len(Stream) :
              IsNumber(Stream, x) /\ Stream[y] = Stream[x] => x = y
        /\ \A r \in Row : Late(r) => ~verify(r)
        /\ parent \in {"fork", "failed"} => Verified = {}
        /\ parent \in {"number", "row"} => Cardinality(Verified) = i
        /\ parent # "crashed"

FarmInv == Base /\ Rows /\ Memory /\ Numbers

LEMMA VerifyIs ==
    ASSUME Types, NEW r \in Row
    PROVE  verify(r) <=> \A k \in Part : C[r][k] = <<r, k>>
BY DEF Types, verify, vector_mult

LEMMA InitFarm == Init => FarmInv
<1> SUFFICES ASSUME Init PROVE FarmInv
  OBVIOUS
<1>1. Base /\ Rows
  BY InitBase, InitRows
<1>2. \A r \in Row : ~verify(r)
  BY <1>1, VerifyIs, Elements DEF Base, Init, Nothing
<1>3. Pieces(C) /\ Pieces(buffer)
  BY Elements DEF Init, Pieces, Nothing, Part
<1>4. Memory
  BY <1>2, <1>3 DEF Init, Memory
<1>5. Numbers
  BY <1>2 DEF Init, Numbers, Stream, Verified
<1> QED
  BY <1>1, <1>4, <1>5 DEF FarmInv

------------------------------------------------------------------------------
(* The programs that share memory *)

LEMMA NoChildMoves ==
    ASSUME Base, [Next]_vars, NoChildLeft
    PROVE  NoChildLeft' /\ \A r \in Row : child'[r] = child[r]
<1>1. \A r \in Row : child'[r] = child[r]
  <2> SUFFICES ASSUME NEW r \in Row PROVE child'[r] = child[r]
    OBVIOUS
  <2> QED
    BY ChildSteps DEF NoChildLeft
<1> QED
  BY <1>1 DEF NoChildLeft

\* Who copies is a child that is left.
LEMMA CopyMemory ==
    ASSUME Base, Memory, NEW r \in Row, CopyToMatrix(r) \/ CopyToBuffer(r)
    PROVE  Memory'
<1>1. /\ NextPart(r) /\ child[r] = "write" /\ ~NoChildLeft
      /\ UNCHANGED <<program, child, parent, i>>
  BY DEF CopyToMatrix, CopyToBuffer, NextPart, NoChildLeft
<1>4. /\ part[r] \in Part /\ vector_mult(r)[part[r]] = <<r, part[r]>>
      /\ part'[r] = part[r] + 1 /\ \A s \in Row \ {r} : part'[s] = part[s]
  <2>1. part[r] \in Part
    BY <1>1, MatMulAssumption DEF NextPart, Base, Types, Part
  <2>2. part'[r] = part[r] + 1 /\ \A s \in Row \ {r} : part'[s] = part[s]
    BY <1>1 DEF NextPart, Base, Types
  <2> QED
    BY <2>1, <2>2, Elements
<1>2. CASE CopyToMatrix(r)
  <2>1. program = "shmem" /\ Pieces(C)
    BY <1>2 DEF CopyToMatrix, Memory
  <2>2. Pieces(C)'
    <3>1. C' = [C EXCEPT ![r][part[r]] = vector_mult(r)[part[r]]]
      BY <1>2 DEF CopyToMatrix
    <3>2. C \in [Row -> [Part -> Piece]]
      BY DEF Base, Types
    <3>3. /\ C'[r][part[r]] = <<r, part[r]>>
          /\ \A s \in Row, k \in Part : s # r \/ k # part[r] => C'[s][k] = C[s][k]
      BY <1>4, <3>1, <3>2
    <3>4. \A s \in Row, k \in Part : C[s][k] = IF k < part[s] THEN <<s, k>> ELSE <<>>
      BY <2>1 DEF Pieces
    <3>5. ASSUME NEW s \in Row, NEW k \in Part
          PROVE  C'[s][k] = IF k < part'[s] THEN <<s, k>> ELSE <<>>
      BY <1>4, <3>3, <3>4 DEF Part
    <3> QED
      BY <3>5 DEF Pieces
  <2> QED
    BY <1>1, <2>1, <2>2 DEF Memory
<1>3. CASE CopyToBuffer(r)
  <2>1. program = "mesg" /\ Pieces(buffer) /\ C' = C
    BY <1>3 DEF CopyToBuffer, Memory
  <2>2. Pieces(buffer)'
    <3>1. buffer' = [buffer EXCEPT ![r][part[r]] = vector_mult(r)[part[r]]]
      BY <1>3 DEF CopyToBuffer
    <3>2. buffer \in [Row -> [Part -> Piece]]
      BY DEF Base, Types
    <3>3. /\ buffer'[r][part[r]] = <<r, part[r]>>
          /\ \A s \in Row, k \in Part : s # r \/ k # part[r] => buffer'[s][k] = buffer[s][k]
      BY <1>4, <3>1, <3>2
    <3>4. \A s \in Row, k \in Part : buffer[s][k] = IF k < part[s] THEN <<s, k>> ELSE <<>>
      BY <2>1 DEF Pieces
    <3>5. ASSUME NEW s \in Row, NEW k \in Part
          PROVE  buffer'[s][k] = IF k < part'[s] THEN <<s, k>> ELSE <<>>
      BY <1>4, <3>3, <3>4 DEF Part
    <3> QED
      BY <3>5 DEF Pieces
  <2>3. parent \notin {"copy", "done"}
    BY <1>1, <2>1 DEF Memory
  <2> QED
    BY <1>1, <2>1, <2>2, <2>3 DEF Memory, verify
<1> QED
  BY <1>2, <1>3

\* Copying a buffer when its child is gone.
LEMMA CopyRowMemory ==
    ASSUME Base, Memory, CopyRow, NEW j \in Row, j = i
    PROVE  /\ Memory' /\ ~verify(j)
           /\ verify(j)' <=> part[j] = Parts
           /\ \A r \in Row \ {j} : verify(r)' <=> verify(r)
<1>1. /\ parent = "copy" /\ i' = j + 1 /\ C' = [C EXCEPT ![j] = buffer[j]]
      /\ UNCHANGED <<program, buffer, child, part, parent>>
  BY DEF CopyRow, childVars
<1>2. /\ program = "mesg" /\ Pieces(buffer) /\ NoChildLeft /\ ~verify(j)
      /\ \A r \in Row : /\ r < j /\ child[r] = "exited" => verify(r)
                        /\ r >= j => ~verify(r)
  <2>1. program = "mesg"
    BY <1>1 DEF Memory, Base, Types, Programs
  <2>2. /\ Pieces(buffer) /\ NoChildLeft
        /\ \A r \in Row : /\ r < j /\ child[r] = "exited" => verify(r)
                          /\ r >= j => ~verify(r)
    BY <1>1, <2>1 DEF Memory
  <2>3. j >= j
    BY Elements
  <2> QED
    BY <2>1, <2>2, <2>3
<1>3. /\ C \in [Row -> [Part -> Piece]] /\ buffer \in [Row -> [Part -> Piece]]
      /\ part[j] \in 0 .. Parts /\ (child[j] = "exited" => part[j] = Parts)
  BY DEF Base, Types, Protocol
<1>4. verify(j)' <=> part[j] = Parts
  <2>1. verify(j)' <=> \A k \in Part : buffer[j][k] = <<j, k>>
    <3>1. C'[j] = buffer[j]
      BY <1>1, <1>3
    <3>2. verify(j)' <=> buffer[j] = vector_mult(j)
      BY <3>1 DEF verify, vector_mult
    <3> QED
      BY <1>3, <3>2 DEF vector_mult
  <2>2. \A k \in Part : buffer[j][k] = <<j, k>> <=> k < part[j]
    <3> SUFFICES ASSUME NEW k \in Part PROVE buffer[j][k] = <<j, k>> <=> k < part[j]
      OBVIOUS
    <3>1. buffer[j][k] = IF k < part[j] THEN <<j, k>> ELSE <<>>
      BY <1>2 DEF Pieces
    <3> QED
      BY <3>1
  <2>3. (\A k \in Part : k < part[j]) <=> part[j] = Parts
    <3>1. Parts - 1 \in Part
      BY MatMulAssumption DEF Part
    <3> QED
      BY <1>3, <3>1, MatMulAssumption DEF Part
  <2> QED
    BY <2>1, <2>2, <2>3
<1>5. \A r \in Row \ {j} : verify(r)' <=> verify(r)
  BY <1>1, <1>3 DEF verify, vector_mult
<1>6. Memory'
  <2>1. ASSUME NEW r \in Row
        PROVE  /\ r < j + 1 /\ child[r] = "exited" => verify(r)'
               /\ r >= j + 1 => ~verify(r)'
    <3>1. CASE r = j
      <4>1. ~(r >= j + 1)
        BY <3>1, Elements
      <4> QED
        BY <1>3, <1>4, <3>1, <4>1
    <3>2. CASE r # j
      <4>1. (r < j + 1 <=> r < j) /\ (r >= j + 1 => r >= j)
        BY <3>2, Elements
      <4> QED
        BY <1>2, <1>5, <3>2, <4>1
    <3> QED
      BY <3>1, <3>2
  <2> QED
    BY <1>1, <1>2, <2>1 DEF Memory, Pieces, NoChildLeft
<1> QED
  BY <1>2, <1>4, <1>5, <1>6

LEMMA NextMemory == Base /\ Memory /\ [Next]_vars => Memory'
<1> SUFFICES ASSUME Base, Memory, [Next]_vars PROVE Memory'
  OBVIOUS
<1>1. program' = program
  BY ProgramStays
<1>2. NoChildLeft => NoChildLeft' /\ \A r \in Row : child'[r] = child[r]
  BY NoChildMoves
\* Steps that neither write to memory nor count.
<1>3. ASSUME UNCHANGED <<C, buffer, part, parent, i>>
      PROVE  Memory'
  BY <1>1, <1>2, <1>3 DEF Memory, Pieces, verify
<1>4. ASSUME NEW r \in Row, Child(r) \/ Die(r)
      PROVE  Memory'
  <2>1. CASE CopyToMatrix(r) \/ CopyToBuffer(r)
    BY <2>1, CopyMemory
  <2>2. CASE WritePart(r)
    <3>1. program = "pipe" /\ parent' = parent
      BY <2>2 DEF WritePart, NextPart
    <3> QED
      BY <1>1, <3>1 DEF Memory
  <2>3. CASE Reserve(r) \/ WriteNumber(r) \/ ReleaseAndExit(r) \/ DetachAndExit(r) \/ Die(r)
    BY <1>3, <2>3
    DEF Reserve, WriteNumber, ReleaseAndExit, DetachAndExit, Exit, Die, Kill
  <2> QED
    BY <1>4, <2>1, <2>2, <2>3 DEF Child
<1>5. CASE CopyRow
  <2>1. i \in Row
    BY <1>5, MatMulAssumption DEF CopyRow, Base, Types, Row
  <2> QED
    <3> SUFFICES ASSUME NEW j \in Row, j = i PROVE Memory'
      BY <2>1
    <3> QED
      BY <1>5, CopyRowMemory
<1>6. CASE Fork \/ ForkWithBuffer \/ ForkError
  <2>1. /\ UNCHANGED <<C, buffer, part>> /\ parent = "fork"
        /\ parent' \in {"fork", "failed"}
    BY <1>6 DEF Fork, ForkWithBuffer, ForkChild, ForkError, childVars
  <2> QED
    BY <1>1, <2>1 DEF Memory, Pieces, verify
<1>7. CASE ForkedAll
  <2>1. /\ UNCHANGED <<C, buffer, part>> /\ parent = "fork" /\ i' = 0
        /\ parent' = IF program = "pipe" THEN "number" ELSE "wait"
    BY <1>7 DEF ForkedAll, childVars
  <2> QED
    BY <1>1, <2>1 DEF Memory, Pieces, verify
<1>8. CASE ReadNumber \/ ReadPart \/ StoreRow \/ VerifyRows
  <2>1. /\ parent \in {"number", "row"}
        /\ parent' \in {"number", "row", "done", "crashed"}
    BY <1>8 DEF ReadNumber, ReadPart, StoreRow, VerifyRows
  <2>2. program = "pipe"
    BY <2>1 DEF Memory, Base, Types, Programs
  <2> QED
    BY <1>1, <2>1, <2>2 DEF Memory
<1>9. CASE WaitAndVerify \/ WaitLoop \/ VerifyCopy
  <2>1. /\ UNCHANGED <<C, buffer, part, i, child>>
    BY <1>9 DEF WaitAndVerify, WaitLoop, VerifyCopy, childVars
  <2>2. CASE WaitAndVerify
    BY <1>1, <2>1, <2>2 DEF WaitAndVerify, Memory, Pieces, NoChildLeft
  <2>3. CASE WaitLoop
    <3>1. program = "mesg" /\ parent = "wait" /\ NoChildLeft /\ parent' = "copy"
      BY <2>3 DEF WaitLoop
    <3>2. i = 0
      BY <3>1 DEF Memory
    <3> QED
      BY <1>1, <2>1, <3>1, <3>2, Elements DEF Memory, Pieces, NoChildLeft, verify
  <2>4. CASE VerifyCopy
    BY <1>1, <2>1, <2>4 DEF VerifyCopy, Memory, Pieces, NoChildLeft
  <2> QED
    BY <1>9, <2>2, <2>3, <2>4
<1>10. CASE UNCHANGED vars
  BY <1>3, <1>10 DEF vars, childVars
<1> QED
  BY <1>4, <1>5, <1>6, <1>7, <1>8, <1>9, <1>10 DEF Next, Parent

------------------------------------------------------------------------------
(* The program with the pipe *)

LEMMA RowIsFinite == IsFiniteSet(Row) /\ Cardinality(Row) = m
BY FS_Interval, MatMulAssumption DEF Row

\* A number or a piece is added to the stream; verify and the late children
\* stay the same but for the child that writes.
LEMMA WriteNumbers ==
    ASSUME Base, Rows, Numbers, program = "pipe", ~Torn,
           NEW r \in Row, WriteNumber(r) \/ WritePart(r)
    PROVE  Numbers'
<1>1. /\ UNCHANGED <<C, parent, i, readVars>> /\ child'[r] = "write"
      /\ \A s \in Row \ {r} : child'[s] = child[s]
      /\ WriteNumber(r) => child[r] = "number"
  BY DEF WriteNumber, WritePart, NextPart, Base, Types
<1>2. Reading /\ Stream \in Seq(Element) /\ Types
  BY StreamIsSeq DEF Rows, Reading, Base
<1>3. PICK e \in Element :
        /\ pipe' = Append(pipe, e)
        /\ e[2] = -1 => e = <<r, -1>> /\ child[r] = "number"
  <2>1. CASE WriteNumber(r)
    <3>1. Number(r) \in Element /\ Number(r) = <<r, -1>>
      BY Elements DEF Number
    <3> QED
      BY <1>1, <2>1, <3>1 DEF WriteNumber, Write
  <2>2. CASE WritePart(r)
    <3>1. part[r] \in Part
      BY <2>2, MatMulAssumption DEF WritePart, NextPart, Base, Types, Part
    <3>2. vector_mult(r)[part[r]] = <<r, part[r]>> /\ <<r, part[r]>> \in Element
      BY <3>1, Elements
    <3>3. pipe' = Append(pipe, <<r, part[r]>>) /\ part[r] # -1
      BY <2>2, <3>1, <3>2 DEF WritePart, Write, Part
    <3> QED
      BY <3>2, <3>3
  <2> QED
    BY <2>1, <2>2
<1>4. Stream' = Append(Stream, e)
  BY <1>1, <1>2, <1>3, WriteIsAppend DEF Reading
<1> DEFINE n == Len(Stream)
<1>5. /\ n \in Nat /\ Len(Stream') = n + 1
      /\ \A x \in 1 .. n : Stream'[x] = Stream[x] /\ Stream[x] \in Element
      /\ Stream'[n + 1] = e
  BY <1>2, <1>3, <1>4, AppendProperties
<1>6. \A x \in 1 .. n : Stream[x][1] \in Row
  BY <1>5 DEF Element
<1>7. \A x \in 1 .. n : IsNumber(Stream, x) =>
          ~verify(Stream[x][1]) /\ ~Late(Stream[x][1])
  BY DEF Numbers
<1>8. \A x, y \in 1 .. n : IsNumber(Stream, x) /\ Stream[y] = Stream[x] => x = y
  BY DEF Numbers
<1>9. \A s \in Row : (verify(s)' <=> verify(s)) /\ (Late(s)' => Late(s)) /\ (~Late(r)')
  BY <1>1 DEF verify, vector_mult, Late
<1> HIDE DEF n
<1>10. ASSUME NEW x \in 1 .. n + 1, Stream'[x][2] = -1
       PROVE  (~verify(Stream[x][1]) /\ ~Late(Stream[x][1]))'
  <2>1. CASE x \in 1 .. n
    <3> DEFINE s == Stream[x][1]
    <3>1. Stream'[x][1] = s /\ s \in Row /\ ~verify(s) /\ ~Late(s)
      BY <1>5, <1>6, <1>7, <1>10, <2>1 DEF IsNumber
    <3> HIDE DEF s
    <3> QED
      BY <1>9, <3>1 DEF verify, Late
  <2>2. CASE x = n + 1
    <3>1. Stream'[x][1] = r /\ child[r] = "number"
      BY <1>3, <1>5, <1>10, <2>2
    <3>2. ~verify(r) /\ ~Late(r)'
      BY <1>9, <3>1 DEF Numbers, Late
    <3> QED
      BY <1>9, <3>1, <3>2 DEF verify, Late
  <2> QED
    BY <1>5, <2>1, <2>2
<1>11. ASSUME NEW x \in 1 .. n + 1, NEW y \in 1 .. n + 1,
              Stream'[x][2] = -1, Stream'[y] = Stream'[x]
       PROVE  x = y
  <2>1. ASSUME NEW z \in 1 .. n, Stream'[z] = e, e[2] = -1
        PROVE  FALSE
    <3>1. Stream[z] = <<r, -1>> /\ child[r] = "number"
      BY <1>3, <1>5, <2>1
    <3> QED
      BY <1>7, <3>1 DEF IsNumber, Late
  <2>2. CASE x \in 1 .. n /\ y \in 1 .. n
    BY <1>5, <1>8, <1>11, <2>2 DEF IsNumber
  <2>3. CASE x = n + 1 /\ y \in 1 .. n
    BY <1>5, <1>11, <2>1, <2>3
  <2>4. CASE x \in 1 .. n /\ y = n + 1
    BY <1>5, <1>11, <2>1, <2>4
  <2>5. (x \in 1 .. n \/ x = n + 1) /\ (y \in 1 .. n \/ y = n + 1)
    BY <1>5
  <2> QED
    BY <2>2, <2>3, <2>4, <2>5
<1>12. Verified' = Verified
  BY <1>9 DEF Verified
<1> QED
  BY <1>1, <1>5, <1>9, <1>10, <1>11, <1>12 DEF Numbers, IsNumber, readVars

\* The parent stores the row it was announced first.
LEMMA StoreNumbers ==
    ASSUME Base, Rows, Numbers, program = "pipe", ~Torn, StoreRow
    PROVE  /\ Numbers'
           /\ parent = "row" /\ readI \in Row /\ ~verify(readI) /\ parent' = "number"
           /\ Verified' = Verified \cup {readI}
<1>1. /\ Types /\ Whole(Stream) /\ Ended(Stream) /\ Reading
      /\ parent = "row" /\ readI \in Row /\ Len(readAns) = Parts
      /\ \A x \in 1 .. Parts : readAns[x] = <<readI, x - 1>>
  BY DEF Rows, Base, Reading, StoreRow
<1> DEFINE j == readI
<1>2. /\ C' = [C EXCEPT ![j] = [k \in Part |-> readAns[k + 1]]]
      /\ parent' = "number" /\ i' = i + 1 /\ pipe' = pipe /\ UNCHANGED child
  BY <1>1 DEF StoreRow, childVars
<1>3. /\ Held \in Seq(Element) /\ pipe \in Seq(Element) /\ Stream = Held \o pipe
      /\ Stream \in Seq(Element) /\ Stream' = pipe
  BY <1>1, <1>2, StreamIsSeq DEF Stream, Types
<1>4. Held # <<>> /\ Len(Held) \in Nat \ {0} /\ Held[1] = <<j, -1>>
  <2>1. <<Number(j)>> \in Seq(Element) /\ Len(<<Number(j)>>) = 1
    <3>1. Number(j) \in Element
      BY <1>1, Elements
    <3> QED
      BY <3>1
  <2>2. readAns \in Seq(Element) /\ Parts \in Nat
    BY <1>1, MatMulAssumption DEF Types
  <2>3. /\ Len(Held) = 1 + Parts
        /\ \A x \in 1 .. 1 + Parts :
              Held[x] = IF x <= 1 THEN <<Number(j)>>[x] ELSE readAns[x - 1]
    BY <1>1, <2>1, <2>2, ConcatProperties DEF Held
  <2>4. Held[1] = Number(j)
    BY <2>2, <2>3
  <2> QED
    BY <2>2, <2>3, <2>4, EmptySeq DEF Number
<1> DEFINE h == Len(Held)
           n == Len(pipe)
<1>5. /\ n \in Nat /\ Len(Stream) = h + n /\ Stream[1] = <<j, -1>>
      /\ \A x \in 1 .. n : Stream[h + x] = pipe[x] /\ pipe[x] \in Element
  <2>1. n \in Nat /\ \A x \in 1 .. n : pipe[x] \in Element
    BY <1>3
  <2>2. /\ Len(Stream) = h + n
        /\ \A x \in 1 .. h + n : Stream[x] = IF x <= h THEN Held[x] ELSE pipe[x - h]
    BY <1>3, ConcatProperties
  <2>3. h \in Nat \ {0}
    BY <1>4
  <2> HIDE DEF h, n
  <2>4. Stream[1] = Held[1]
    BY <2>1, <2>2, <2>3
  <2>5. ASSUME NEW x \in 1 .. n PROVE Stream[h + x] = pipe[x]
    <3>1. h + x \in 1 .. h + n /\ ~(h + x <= h) /\ (h + x) - h = x
      BY <2>1, <2>3
    <3> QED
      BY <2>2, <3>1
  <2> QED
    BY <1>4, <2>1, <2>2, <2>4, <2>5
<1>6. h \in Nat \ {0}
  BY <1>4
<1> HIDE DEF h, n
<1>7. /\ \A x \in 1 .. h + n : IsNumber(Stream, x) =>
             ~verify(Stream[x][1]) /\ ~Late(Stream[x][1])
      /\ \A x, y \in 1 .. h + n : IsNumber(Stream, x) /\ Stream[y] = Stream[x] => x = y
      /\ Cardinality(Verified) = i
      /\ \A r \in Row : Late(r) => ~verify(r)
  BY <1>1, <1>5 DEF Numbers
<1>8. ~verify(j) /\ ~Late(j)
  <2>1. 1 \in 1 .. h + n
    BY <1>5, <1>6
  <2> QED
    BY <1>5, <1>7, <2>1 DEF IsNumber
<1>9. \A r \in Row : verify(r)' <=> (r = j \/ verify(r))
  <2>1. C \in [Row -> [Part -> Piece]]
    BY <1>1 DEF Types
  <2>2. [k \in Part |-> readAns[k + 1]] = vector_mult(j)
    <3>1. \A k \in Part : k + 1 \in 1 .. Parts /\ (k + 1) - 1 = k
      BY MatMulAssumption DEF Part
    <3>2. \A k \in Part : readAns[k + 1] = <<j, k>>
      BY <1>1, <3>1
    <3> QED
      BY <3>2 DEF vector_mult
  <2>3. C'[j] = vector_mult(j) /\ \A r \in Row \ {j} : C'[r] = C[r]
    BY <1>1, <1>2, <2>1, <2>2
  <2> HIDE DEF j
  <2>4. \A r \in Row : vector_mult(r)' = vector_mult(r)
    BY DEF vector_mult
  <2> QED
    BY <2>3, <2>4 DEF verify
<1>10. Verified' = Verified \cup {j} /\ j \notin Verified
  BY <1>1, <1>8, <1>9 DEF Verified
<1>11. Cardinality(Verified') = i + 1
  <2>1. IsFiniteSet(Verified)
    BY RowIsFinite, FS_Subset DEF Verified
  <2> QED
    BY <1>7, <1>10, <2>1, FS_AddElement
<1>12. ASSUME NEW x \in 1 .. n, pipe[x][2] = -1
       PROVE  (~verify(pipe[x][1]) /\ ~Late(pipe[x][1]))'
  <2>1. /\ h + x \in 1 .. h + n /\ h + x # 1 /\ 1 \in 1 .. h + n
        /\ Stream[h + x] = pipe[x] /\ pipe[x] \in Element
    BY <1>5, <1>6
  <2> DEFINE s == pipe[x][1]
  <2>2. s \in Row /\ pipe[x] = <<s, -1>>
    BY <1>12, <2>1 DEF Element
  <2>3. ~verify(s) /\ ~Late(s)
    BY <1>7, <1>12, <2>1 DEF IsNumber
  <2>4. s # j
    BY <1>5, <1>7, <2>1, <2>2 DEF IsNumber
  <2>5. pipe'[x][1] = s
    BY <1>2
  <2> HIDE DEF s
  <2> QED
    BY <1>2, <1>9, <2>2, <2>3, <2>4, <2>5 DEF verify, Late, vector_mult
<1>13. ASSUME NEW x \in 1 .. n, NEW y \in 1 .. n, pipe[x][2] = -1, pipe[y] = pipe[x]
       PROVE  x = y
  <2>1. /\ h + x \in 1 .. h + n /\ h + y \in 1 .. h + n
        /\ Stream[h + x] = pipe[x] /\ Stream[h + y] = pipe[y]
    BY <1>5, <1>6
  <2>2. h + x = h + y
    BY <1>7, <1>13, <2>1 DEF IsNumber
  <2> QED
    BY <1>6, <2>2
<1>14. \A r \in Row : Late(r)' => ~verify(r)'
  BY <1>2, <1>7, <1>8, <1>9 DEF Late
<1>15. Numbers'
  BY <1>2, <1>3, <1>11, <1>12, <1>13, <1>14 DEF Numbers, IsNumber, n
<1> QED
  BY <1>1, <1>2, <1>8, <1>10, <1>15

LEMMA NextNumbers == Base /\ Rows /\ Memory /\ Numbers /\ [Next]_vars => Numbers'
<1> SUFFICES ASSUME Base, Rows, Memory, Numbers, [Next]_vars, program' = "pipe", ~Torn'
             PROVE  Numbers'
  BY DEF Numbers
<1>1. program = "pipe" /\ ~Torn /\ Types
  BY ProgramStays, TornStays DEF Base
<1>2. Whole(Stream) /\ Reading
  BY <1>1 DEF Rows
<1>3. \A r \in Row : Late(r)' => Late(r)
  <2> SUFFICES ASSUME NEW r \in Row, Late(r)' PROVE Late(r)
    OBVIOUS
  <2> QED
    BY ChildSteps DEF Late
<1>4. parent \notin {"wait", "copy"}
  BY <1>1 DEF Memory
\* Steps that leave the stream and the matrix alone.
<1>5. ASSUME Stream' = Stream, C' = C,
             parent' \in {"fork", "failed"} => parent \in {"fork", "failed"},
             parent' \in {"number", "row"} =>
                 i' = IF parent = "fork" THEN 0 ELSE i,
             parent' \in {"number", "row"} => parent \in {"fork", "number", "row"},
             parent' # "crashed"
      PROVE  Numbers'
  <2>1. \A r \in Row : verify(r)' <=> verify(r)
    BY <1>5 DEF verify, vector_mult
  <2>2. Verified' = Verified
    BY <2>1 DEF Verified
  <2>3. \A x \in 1 .. Len(Stream) : Stream[x][1] \in Row
    <3>1. Stream \in Seq(Element)
      BY <1>1, <1>2, StreamIsSeq DEF Reading
    <3>2. \A x \in 1 .. Len(Stream) : Stream[x] \in Element
      BY <3>1
    <3> QED
      BY <3>2 DEF Element
  <2>4. ASSUME NEW x \in 1 .. Len(Stream), IsNumber(Stream, x)
        PROVE  (~verify(Stream[x][1]) /\ ~Late(Stream[x][1]))'
    <3> DEFINE s == Stream[x][1]
    <3>1. s \in Row /\ ~verify(s) /\ ~Late(s)
      BY <1>1, <2>3, <2>4 DEF Numbers
    <3>2. Stream'[x][1] = s
      BY <1>5
    <3> HIDE DEF s
    <3> QED
      BY <1>3, <2>1, <3>1, <3>2 DEF verify, Late
  <2>5. \A x, y \in 1 .. Len(Stream) : IsNumber(Stream, x) /\ Stream[y] = Stream[x] => x = y
    BY <1>1 DEF Numbers
  <2>6. \A r \in Row : Late(r)' => ~verify(r)'
    BY <1>1, <1>3, <2>1 DEF Numbers
  <2>7. parent' \in {"number", "row"} => Cardinality(Verified') = i'
    <3>1. parent = "fork" => Cardinality(Verified) = 0
      BY <1>1, FS_EmptySet DEF Numbers
    <3> QED
      BY <1>1, <1>5, <2>2, <3>1 DEF Numbers
  <2>8. parent' \in {"fork", "failed"} => Verified' = {}
    BY <1>1, <1>5, <2>2 DEF Numbers
  <2> QED
    BY <1>5, <2>4, <2>5, <2>6, <2>7, <2>8 DEF Numbers, IsNumber
<1>6. parent # "crashed"
  BY <1>1 DEF Numbers
<1>7. ASSUME NEW r \in Row, Child(r) \/ Die(r)
      PROVE  Numbers'
  <2>1. CASE WriteNumber(r) \/ WritePart(r)
    BY <1>1, <2>1, WriteNumbers
  <2>2. CASE Reserve(r) \/ ReleaseAndExit(r) \/ Die(r)
    <3>1. UNCHANGED <<C, pipe, parent, i, readVars>>
      BY <2>2 DEF Reserve, ReleaseAndExit, Exit, Die, Kill
    <3>2. Stream' = Stream
      BY <3>1 DEF Stream, Number, readVars
    <3> QED
      BY <1>5, <1>6, <3>1, <3>2 DEF Numbers
  <2> QED
    BY <1>1, <1>7, <2>1, <2>2 DEF Child, CopyToMatrix, CopyToBuffer, DetachAndExit
<1>8. CASE StoreRow
  BY <1>1, <1>8, StoreNumbers
<1>9. CASE ReadNumber \/ ReadPart
  <2>1. Stream' = Stream
    BY <1>1, <1>2, <1>9, ReadKeepsStream
  <2> QED
    BY <1>5, <1>9, <2>1 DEF ReadNumber, ReadPart
<1>10. CASE Fork \/ ForkError \/ ForkedAll \/ VerifyRows \/ UNCHANGED vars
  <2>1. UNCHANGED <<C, pipe, readVars>> /\ (parent' = "row" <=> parent = "row")
    BY <1>10 DEF Fork, ForkChild, ForkError, ForkedAll, VerifyRows, vars
  <2>2. Stream' = Stream
    BY <2>1 DEF Stream, Number, readVars
  <2> QED
    BY <1>1, <1>5, <1>6, <1>10, <2>1, <2>2
    DEF Fork, ForkChild, ForkError, ForkedAll, VerifyRows, vars
<1> QED
  BY <1>1, <1>4, <1>7, <1>8, <1>9, <1>10
  DEF Next, Parent, ForkWithBuffer, WaitAndVerify, WaitLoop, CopyRow, VerifyCopy

LEMMA AlwaysFarm == Spec => []FarmInv
<1>1. FarmInv /\ [Next]_vars => FarmInv'
  BY NextBase, NextRows, NextMemory, NextNumbers DEF FarmInv
<1> QED
  BY <1>1, InitFarm, PTL DEF Spec

------------------------------------------------------------------------------
(* The steps of the programs as steps of RowFarm *)

Used == parent = "done"

\* What RowFarm sees.
View == <<Verified, Killed, Torn, Used>>

Deliver(r) ==
    /\ r \notin Verified /\ ~Used
    /\ Verified' = Verified \cup {r}
    /\ UNCHANGED <<Killed, Torn, Used>>

Lose(r) ==
    /\ r \notin Killed
    /\ Killed' = Killed \cup {r}
    /\ UNCHANGED <<Verified, Used>>

Use ==
    /\ Verified \cup Killed = Row /\ ~Used
    /\ Used'
    /\ UNCHANGED <<Verified, Killed, Torn>>

LEMMA SameKilled ==
    ASSUME \A r \in Row : child'[r] = child[r] \/ {child[r], child'[r]} \cap {"dead", "torn"} = {}
    PROVE  UNCHANGED <<Killed, Torn>>
<1>1. \A r \in Row : /\ child'[r] = "torn" <=> child[r] = "torn"
                     /\ child'[r] \in {"dead", "torn"} <=> child[r] \in {"dead", "torn"}
  OBVIOUS
<1> QED
  BY <1>1 DEF Killed, Torn

LEMMA SameRows ==
    ASSUME C' = C
    PROVE  Verified' = Verified
BY DEF Verified, verify, vector_mult

LEMMA ChildRefines ==
    ASSUME FarmInv, FarmInv', [Next]_vars, NEW r \in Row, Child(r)
    PROVE  UNCHANGED View \/ Deliver(r)
<1>1. /\ child \in [Row -> States] /\ C \in [Row -> [Part -> Piece]] /\ Types
      /\ Types' /\ parent' = parent
  BY DEF FarmInv, Base, Types, States, Child, Reserve, WriteNumber, WritePart,
         CopyToMatrix, CopyToBuffer, ReleaseAndExit, DetachAndExit, NextPart, Exit
<1>2. UNCHANGED <<Killed, Torn>>
  <2>1. child[r] \in {"reserve", "number", "write"}
    BY DEF Child, Reserve, WriteNumber, WritePart,
           CopyToMatrix, CopyToBuffer, ReleaseAndExit, DetachAndExit, NextPart, Exit
  <2>2. \E c \in {"reserve", "number", "write", "exited"} : child' = [child EXCEPT ![r] = c]
    BY <1>1, <2>1 DEF Child, Reserve, WriteNumber, WritePart,
           CopyToMatrix, CopyToBuffer, ReleaseAndExit, DetachAndExit, NextPart, Exit
  <2>3. \A s \in Row : child'[s] = child[s] \/ {child[s], child'[s]} \cap {"dead", "torn"} = {}
    BY <1>1, <2>1, <2>2
  <2> QED
    BY <2>3, SameKilled
<1>3. CASE CopyToMatrix(r)
  <2>1. /\ program = "shmem" /\ child[r] = "write" /\ ~Used
        /\ part[r] < Parts /\ part[r] \in 0 .. Parts
        /\ part' = [part EXCEPT ![r] = @ + 1] /\ program' = program
    BY <1>3 DEF CopyToMatrix, NextPart, FarmInv, Memory, NoChildLeft, Used, Base, Types
  <2>2. Pieces(C) /\ Pieces(C)'
    BY <2>1 DEF FarmInv, Memory
  <2>3. \A s \in Row : verify(s) <=> part[s] = Parts
    <3> SUFFICES ASSUME NEW s \in Row PROVE verify(s) <=> part[s] = Parts
      OBVIOUS
    <3>1. \A k \in Part : C[s][k] = <<s, k>> <=> k < part[s]
      <4> SUFFICES ASSUME NEW k \in Part PROVE C[s][k] = <<s, k>> <=> k < part[s]
        OBVIOUS
      <4>1. C[s][k] = IF k < part[s] THEN <<s, k>> ELSE <<>>
        BY <2>2 DEF Pieces
      <4> QED
        BY <4>1
    <3>2. (\A k \in Part : k < part[s]) <=> part[s] = Parts
      <4>1. Parts - 1 \in Part /\ part[s] \in 0 .. Parts
        BY <1>1, MatMulAssumption DEF Part, Types
      <4> QED
        BY <4>1, MatMulAssumption DEF Part
    <3> QED
      BY <1>1, <3>1, <3>2, VerifyIs
  <2>4. \A s \in Row : verify(s)' <=> part'[s] = Parts
    <3> SUFFICES ASSUME NEW s \in Row PROVE verify(s)' <=> part'[s] = Parts
      OBVIOUS
    <3>1. \A k \in Part : C'[s][k] = <<s, k>> <=> k < part'[s]
      <4> SUFFICES ASSUME NEW k \in Part PROVE C'[s][k] = <<s, k>> <=> k < part'[s]
        OBVIOUS
      <4>1. C'[s][k] = IF k < part'[s] THEN <<s, k>> ELSE <<>>
        BY <2>2 DEF Pieces
      <4> QED
        BY <4>1
    <3>2. (\A k \in Part : k < part'[s]) <=> part'[s] = Parts
      <4>1. Parts - 1 \in Part /\ part'[s] \in 0 .. Parts
        BY <1>1, MatMulAssumption DEF Part, Types
      <4> QED
        BY <4>1, MatMulAssumption DEF Part
    <3>3. verify(s)' <=> \A k \in Part : C'[s][k] = <<s, k>>
      BY <1>1 DEF Types, verify, vector_mult
    <3> QED
      BY <3>1, <3>2, <3>3
  <2>5. \A s \in Row \ {r} : part'[s] = part[s]
    BY <1>1, <2>1 DEF Types
  <2>6. ~verify(r) /\ \A s \in Row \ {r} : verify(s)' <=> verify(s)
    BY <2>1, <2>3, <2>4, <2>5, MatMulAssumption
  <2>7. CASE verify(r)'
    <3>1. Verified' = Verified \cup {r} /\ r \notin Verified
      BY <2>6, <2>7 DEF Verified
    <3> QED
      BY <1>1, <1>2, <2>1, <3>1 DEF Deliver, Used
  <2>8. CASE ~verify(r)'
    <3>1. Verified' = Verified
      BY <2>6, <2>8 DEF Verified
    <3> QED
      BY <1>1, <1>2, <3>1 DEF View, Used
  <2> QED
    BY <2>7, <2>8
<1>4. CASE ~CopyToMatrix(r)
  <2>1. C' = C
    BY <1>4 DEF Child, Reserve, WriteNumber, WritePart, CopyToBuffer, ReleaseAndExit,
                DetachAndExit, NextPart, Exit
  <2> QED
    BY <1>1, <1>2, <2>1, SameRows DEF View, Used
<1> QED
  BY <1>3, <1>4

LEMMA DieRefines ==
    ASSUME FarmInv, NEW r \in Row, Die(r)
    PROVE  Lose(r)
<1>1. /\ child \in [Row -> States] /\ child[r] \in {"reserve", "number", "write"}
      /\ child'[r] \in {"dead", "torn"} /\ \A s \in Row \ {r} : child'[s] = child[s]
      /\ C' = C /\ parent' = parent
  BY DEF Die, Kill, FarmInv, Base, Types, States
<1>2. r \notin Killed /\ Killed' = Killed \cup {r}
  BY <1>1 DEF Killed
<1> QED
  BY <1>1, <1>2, SameRows DEF Lose, Used

LEMMA ParentRefines ==
    ASSUME FarmInv, [Next]_vars, ~Torn, Parent
    PROVE  UNCHANGED View \/ Use \/ \E r \in Row : Deliver(r)
<1>1. Types /\ Memory /\ Rows /\ Numbers /\ Base
  BY DEF FarmInv, Base
<1>2. CASE Fork \/ ForkWithBuffer \/ ForkError \/ ForkedAll \/ WaitLoop
           \/ ReadNumber \/ ReadPart
  <2>1. C' = C /\ parent # "done" /\ parent' # "done"
    BY <1>2 DEF Fork, ForkWithBuffer, ForkChild, ForkError, ForkedAll, WaitLoop,
                ReadNumber, ReadPart
  <2>2. UNCHANGED <<Killed, Torn>>
    <3>1. CASE Fork \/ ForkWithBuffer
      <4>1. /\ i \in Row /\ child[i] = "none" /\ child \in [Row -> States]
            /\ \E c \in {"reserve", "write"} : child' = [child EXCEPT ![i] = c]
        BY <1>1, <3>1, Elements, MatMulAssumption
        DEF Fork, ForkWithBuffer, ForkChild, Base, Types, Unforked, Row, States
      <4>2. \A s \in Row : child'[s] = child[s] \/ {child[s], child'[s]} \cap {"dead", "torn"} = {}
        BY <4>1
      <4> QED
        BY <4>2, SameKilled
    <3>2. CASE ~(Fork \/ ForkWithBuffer)
      <4>1. child' = child
        BY <1>2, <3>2 DEF ForkError, ForkedAll, WaitLoop, ReadNumber, ReadPart, childVars
      <4> QED
        BY <4>1 DEF Killed, Torn
    <3> QED
      BY <3>1, <3>2
  <2> QED
    BY <2>1, <2>2, SameRows DEF View, Used
<1>3. CASE StoreRow
  <2>1. program = "pipe"
    BY <1>1, <1>3 DEF StoreRow, Memory, Types, Programs
  <2>2. /\ parent = "row" /\ readI \in Row /\ ~verify(readI) /\ parent' = "number"
        /\ Verified' = Verified \cup {readI}
    BY <1>1, <1>3, <2>1, StoreNumbers
  <2>3. UNCHANGED <<Killed, Torn>>
    BY <1>3 DEF StoreRow, childVars, Killed, Torn
  <2>4. Deliver(readI)
    BY <2>2, <2>3 DEF Deliver, Used, Verified
  <2> QED
    BY <2>2, <2>4
<1>4. CASE CopyRow
  <2>1. /\ i \in Row /\ parent = "copy" /\ parent' = "copy" /\ UNCHANGED <<Killed, Torn>>
    BY <1>1, <1>4, MatMulAssumption DEF CopyRow, Types, Row, childVars, Killed, Torn
  <2> SUFFICES ASSUME NEW j \in Row, j = i
               PROVE  UNCHANGED View \/ Deliver(j)
    BY <2>1
  <2>2. /\ ~verify(j)
        /\ \A r \in Row \ {j} : verify(r)' <=> verify(r)
    BY <1>1, <1>4, CopyRowMemory
  <2>3. CASE verify(j)'
    <3>1. Verified' = Verified \cup {j} /\ j \notin Verified
      BY <2>2, <2>3 DEF Verified
    <3> QED
      BY <2>1, <3>1 DEF Deliver, Used
  <2>4. CASE ~verify(j)'
    <3>1. Verified' = Verified
      BY <2>2, <2>4 DEF Verified
    <3> QED
      BY <2>1, <3>1 DEF View, Used
  <2> QED
    BY <2>3, <2>4
<1>5. CASE VerifyRows \/ WaitAndVerify \/ VerifyCopy
  <2>1. /\ parent # "done" /\ parent' = "done" /\ C' = C /\ child' = child
    BY <1>5 DEF VerifyRows, WaitAndVerify, VerifyCopy, childVars
  <2>2. UNCHANGED <<Killed, Torn, Verified>>
    BY <2>1, SameRows DEF Killed, Torn
  <2>3. Verified \cup Killed = Row
    <3>1. CASE VerifyRows
      <4>1. program = "pipe" /\ parent = "number" /\ i = m
        BY <1>1, <3>1 DEF VerifyRows, Memory, Types, Programs
      <4>2. Cardinality(Verified) = m
        BY <1>1, <4>1 DEF Numbers
      <4>3. Verified = Row
        BY <4>2, RowIsFinite, FS_Subset DEF Verified
      <4> QED
        BY <4>3 DEF Killed
    <3>2. CASE WaitAndVerify
      <4>1. program = "shmem" /\ Pieces(C) /\ NoChildLeft
        BY <1>1, <3>2 DEF WaitAndVerify, Memory
      <4>2. ASSUME NEW r \in Row, r \notin Killed PROVE verify(r)
        <5>1. child[r] = "exited"
          BY <4>1, <4>2 DEF NoChildLeft, Killed
        <5>2. part[r] = Parts
          BY <1>1, <5>1 DEF Base, Protocol
        <5>3. \A k \in Part : C[r][k] = <<r, k>>
          <6> SUFFICES ASSUME NEW k \in Part PROVE C[r][k] = <<r, k>>
            OBVIOUS
          <6>1. k < part[r]
            BY <5>2, MatMulAssumption DEF Part
          <6> QED
            BY <4>1, <6>1 DEF Pieces
        <5> QED
          BY <1>1, <5>3, VerifyIs
      <4> QED
        BY <4>2 DEF Verified, Killed
    <3>3. CASE VerifyCopy
      <4>1. program = "mesg" /\ parent = "copy" /\ i = m
        BY <1>1, <3>3 DEF VerifyCopy, Memory, Types, Programs
      <4>2. /\ NoChildLeft
            /\ \A r \in Row : r < m /\ child[r] = "exited" => verify(r)
        BY <1>1, <4>1 DEF Memory
      <4>3. ASSUME NEW r \in Row, r \notin Killed PROVE verify(r)
        BY <4>2, <4>3, MatMulAssumption DEF NoChildLeft, Killed, Row
      <4> QED
        BY <4>3 DEF Verified, Killed
    <3> QED
      BY <1>5, <3>1, <3>2, <3>3
  <2> QED
    BY <2>1, <2>2, <2>3 DEF Use, Used
<1> QED
  BY <1>2, <1>3, <1>4, <1>5 DEF Parent

\* Whatever the order in which children write, and parents fork, read and wait,
\* and whoever is killed: each of the three programs delivers every row once, as
\* a whole and under its number, and verifies the result when all rows are there
\* but those of the killed; unless a row was torn in the pipe.
THEOREM ProgramsAreRowFarms == Spec => ImplementsRowFarm
<1>1. Init => AsRowFarm!Init
  <2> SUFFICES ASSUME Init PROVE AsRowFarm!Init
    OBVIOUS
  <2>1. \A r \in Row : ~verify(r)
    BY InitFarm, VerifyIs, Elements DEF FarmInv, Base, Init, Nothing
  <2> QED
    BY <2>1 DEF Init, AsRowFarm!Init, Killed, Torn
<1>2. FarmInv /\ FarmInv' /\ [Next]_vars => [AsRowFarm!Next]_(AsRowFarm!vars)
  <2> SUFFICES ASSUME FarmInv, FarmInv', [Next]_vars
               PROVE  [AsRowFarm!Next]_(AsRowFarm!vars)
    OBVIOUS
  <2>1. CASE Torn
    BY <2>1, TornStays DEF FarmInv, AsRowFarm!Next, AsRowFarm!Anything
  <2>2. UNCHANGED View => UNCHANGED AsRowFarm!vars
    BY DEF View, AsRowFarm!vars, Verified, Used
  <2>3. ASSUME NEW r \in Row, Deliver(r) PROVE AsRowFarm!Deliver(r)
    BY <2>3 DEF Deliver, AsRowFarm!Deliver, Verified, Used
  <2>4. ASSUME NEW r \in Row, Lose(r) PROVE AsRowFarm!Lose(r)
    BY <2>4 DEF Lose, AsRowFarm!Lose, Verified, Used, Torn
  <2>5. Use => AsRowFarm!Use
    BY DEF Use, AsRowFarm!Use, Verified, Used
  <2>6. CASE UNCHANGED vars
    <3>1. UNCHANGED <<C, child, parent>>
      BY <2>6 DEF vars, childVars
    <3> QED
      BY <2>2, <3>1, SameRows DEF View, Killed, Torn, Used
  <2>7. CASE Parent /\ ~Torn
    BY <2>2, <2>3, <2>5, <2>7, ParentRefines DEF AsRowFarm!Next
  <2>8. ASSUME NEW r \in Row, Child(r)
        PROVE  [AsRowFarm!Next]_(AsRowFarm!vars)
    BY <2>2, <2>3, <2>8, ChildRefines DEF AsRowFarm!Next
  <2>9. ASSUME NEW r \in Row, Die(r)
        PROVE  [AsRowFarm!Next]_(AsRowFarm!vars)
    BY <2>4, <2>9, DieRefines DEF AsRowFarm!Next
  <2> QED
    BY <2>1, <2>6, <2>7, <2>8, <2>9 DEF Next
<1> QED
  BY <1>1, <1>2, AlwaysFarm, PTL DEF Spec, ImplementsRowFarm, AsRowFarm!Spec
=============================================================================
