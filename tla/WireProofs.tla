----------------------------- MODULE WireProofs -----------------------------
(***************************************************************************)
(* Proofs about the bytes between the pages and the programs, for any      *)
(* forms, numbers, wallets and deals: what either side reads is what the   *)
(* other wrote, field by field, because the tables agree and because a     *)
(* reader that takes the widths the writer gave finds every field whole.   *)
(***************************************************************************)
EXTENDS Wire, SequenceTheorems, WellFoundedInduction, TLAPS

(***************************************************************************)
(* Recursion on the index of a field.                                      *)
(***************************************************************************)

(* A set of numbers that is not empty has a least one. *)
LEMMA LeastExists ==
  ASSUME NEW T \in SUBSET Nat, T # {}
  PROVE  \E x \in T : \A y \in T : x <= y
<1> DEFINE Below == {ss \in Nat \X Nat : ss[1] < ss[2]}
<1>1. IsWellFoundedOn(Below, Nat)
  BY NatLessThanWellFounded DEF OpToRel
<1>2. \A x, y \in Nat : x < y => <<x, y>> \in Below
  OBVIOUS
<1> HIDE DEF Below
<1>3. PICK x \in T : \A y \in T : ~ (<<y, x>> \in Below)
  BY <1>1, WFMin
<1>4. \A y \in T : ~ (y < x)
  BY <1>2, <1>3
<1> QED
  BY <1>4

(* A set of numbers up to n that holds 0 and with each number the next     *)
(* holds them all.                                                         *)
LEMMA Upwards ==
  ASSUME NEW n \in Nat, NEW P, 0 \in P, \A k \in 1 .. n : k - 1 \in P => k \in P
  PROVE  \A k \in 0 .. n : k \in P
<1> DEFINE T == {k \in 0 .. n : k \notin P}
<1> SUFFICES ASSUME T # {}
             PROVE  FALSE
  OBVIOUS
<1>1. T \in SUBSET Nat
  OBVIOUS
<1>2. \A k \in T : k \in 0 .. n /\ k \notin P
  OBVIOUS
<1>3. \A k \in 0 .. n : k \notin P => k \in T
  OBVIOUS
<1> HIDE DEF T
<1>4. PICK m \in T : \A k \in T : m <= k
  BY <1>1, LeastExists
<1>5. m \in 1 .. n /\ m - 1 \in 0 .. n
  BY <1>2
<1>6. m - 1 \in P
  BY <1>3, <1>4, <1>5
<1> QED
  BY <1>2, <1>5, <1>6

(* What is written: the concatenation up to each of the fields.            *)
Joined(b, pieces, n) ==
  b = [i \in 1 .. n |-> IF i = 1 THEN pieces[i] ELSE b[i - 1] \o pieces[i]]

LEMMA JoinedExists ==
  ASSUME NEW pieces, NEW n \in Nat
  PROVE  \E b : Joined(b, pieces, n)
<1> DEFINE P == {k \in 0 .. n : \E b : Joined(b, pieces, k)}
<1>1. 0 \in P
  <2>1. Joined(<<>>, pieces, 0)
    BY DEF Joined
  <2> QED
    BY <2>1
<1>2. ASSUME NEW k \in 1 .. n, k - 1 \in P
      PROVE  k \in P
  <2>1. PICK b : Joined(b, pieces, k - 1)
    BY <1>2
  <2>2. \A i \in 1 .. k - 1 : b[i] = IF i = 1 THEN pieces[i] ELSE b[i - 1] \o pieces[i]
    BY <2>1 DEF Joined
  <2> DEFINE c == [i \in 1 .. k |-> IF i = 1 THEN pieces[i] ELSE b[i - 1] \o pieces[i]]
  <2>3. \A i \in 1 .. k - 1 : c[i] = b[i]
    BY <2>2
  <2>4. \A i \in 1 .. k : i # 1 => i - 1 \in 1 .. k - 1
    OBVIOUS
  <2>5. \A i \in 1 .. k : c[i] = IF i = 1 THEN pieces[i] ELSE c[i - 1] \o pieces[i]
    BY <2>3, <2>4
  <2>6. Joined(c, pieces, k)
    BY <2>5 DEF Joined
  <2> QED
    BY <2>6
<1> HIDE DEF P
<1>3. n \in P
  BY <1>1, <1>2, Upwards
<1> QED
  BY <1>3 DEF P

(* What is read: the values and the rest after each of the fields.         *)
Reading(a, enums, layout, bytes, n) ==
  a = [i \in 0 .. n |-> IF i = 0 THEN [values |-> <<>>, rest |-> bytes]
                                 ELSE ReadField(enums, a[i - 1], layout[i])]

LEMMA ReadingExists ==
  ASSUME NEW enums, NEW layout, NEW bytes, NEW n \in Nat
  PROVE  \E a : Reading(a, enums, layout, bytes, n)
<1> DEFINE start == [values |-> <<>>, rest |-> bytes]
           P == {k \in 0 .. n : \E a : Reading(a, enums, layout, bytes, k)}
<1>1. 0 \in P
  <2>1. Reading([i \in 0 .. 0 |-> start], enums, layout, bytes, 0)
    BY DEF Reading
  <2> QED
    BY <2>1
<1>2. ASSUME NEW k \in 1 .. n, k - 1 \in P
      PROVE  k \in P
  <2>1. PICK b : Reading(b, enums, layout, bytes, k - 1)
    BY <1>2
  <2>2. \A i \in 0 .. k - 1 :
          b[i] = IF i = 0 THEN start ELSE ReadField(enums, b[i - 1], layout[i])
    BY <2>1 DEF Reading
  <2> DEFINE c == [i \in 0 .. k |->
                     IF i = 0 THEN start ELSE ReadField(enums, b[i - 1], layout[i])]
  <2>3. \A i \in 0 .. k - 1 : c[i] = b[i]
    BY <2>2
  <2>4. \A i \in 0 .. k : i # 0 => i - 1 \in 0 .. k - 1
    OBVIOUS
  <2>5. \A i \in 0 .. k :
          c[i] = IF i = 0 THEN start ELSE ReadField(enums, c[i - 1], layout[i])
    BY <2>3, <2>4
  <2>6. Reading(c, enums, layout, bytes, k)
    BY <2>5 DEF Reading
  <2> QED
    BY <2>6
<1> HIDE DEF P
<1>3. n \in P
  BY <1>1, <1>2, Upwards
<1> QED
  BY <1>3 DEF P

(* Write, as the prover can use it. *)
LEMMA WriteUnfolds ==
  ASSUME NEW enums, NEW layout, NEW values, NEW n \in Nat \ {0}, Len(layout) = n,
         DOMAIN layout = 1 .. n
  PROVE  \E b : /\ Write(enums, layout, values) = b[n]
                /\ \A i \in 1 .. n :
                     b[i] = IF i = 1 THEN WriteField(enums, layout[i], values[layout[i][1]])
                            ELSE b[i - 1] \o
                                 WriteField(enums, layout[i], values[layout[i][1]])
<1> DEFINE pieces == [i \in DOMAIN layout |->
                        WriteField(enums, layout[i], values[layout[i][1]])]
           b == CHOOSE b : Joined(b, pieces, n)
<1>1. Len(pieces) = n
  OBVIOUS
<1>2. Write(enums, layout, values) = FlattenSeq(pieces)
  BY DEF Write
<1>3. \A i \in 1 .. n : pieces[i] = WriteField(enums, layout[i], values[layout[i][1]])
  OBVIOUS
<1> HIDE DEF pieces
<1>4. FlattenSeq(pieces) = b[n]
  BY <1>1 DEF FlattenSeq, Joined
<1>5. Joined(b, pieces, n)
  BY JoinedExists
<1>6. \A i \in 1 .. n : b[i] = IF i = 1 THEN pieces[i] ELSE b[i - 1] \o pieces[i]
  BY <1>5 DEF Joined
<1> HIDE DEF b
<1> QED
  BY <1>2, <1>3, <1>4, <1>6

(* Read, as the prover can use it. *)
LEMMA ReadUnfolds ==
  ASSUME NEW enums, NEW layout, NEW bytes, NEW n \in Nat, Len(layout) = n
  PROVE  \E a : /\ Read(enums, layout, bytes) = a[n].values
                /\ a[0] = [values |-> <<>>, rest |-> bytes]
                /\ \A i \in 1 .. n : a[i] = ReadField(enums, a[i - 1], layout[i])
<1> DEFINE a == CHOOSE a : Reading(a, enums, layout, bytes, n)
<1>1. Read(enums, layout, bytes) = a[n].values
  BY DEF Read, Reading
<1>2. Reading(a, enums, layout, bytes, n)
  BY ReadingExists
<1> HIDE DEF a
<1>3. /\ a[0] = [values |-> <<>>, rest |-> bytes]
      /\ \A i \in 1 .. n : a[i] = ReadField(enums, a[i - 1], layout[i])
  BY <1>2 DEF Reading
<1> QED
  BY <1>1, <1>3

(***************************************************************************)
(* One field: what its reader takes off the front of the bytes.            *)
(***************************************************************************)

(* A value an enumerated field can carry: one of its names, in one byte.   *)
(* Any other field carries anything.                                       *)
Sendable(enums, field, value) ==
  field[1] \in DOMAIN enums =>
    /\ field[2] = "u8"
    /\ \E i \in DOMAIN enums[field[1]] : enums[field[1]][i] = value

Extended(values, f, value) == Merged(values, [x \in {f} |-> value])

(* Taking the width that was put returns what was put, and the rest.       *)
LEMMA TakePut ==
  ASSUME NEW S, NEW w, NEW v, [width |-> w, value |-> v] \in S, NEW rest \in Seq(S)
  PROVE  Take(Put(w, v) \o rest, w) = [value |-> v, rest |-> rest]
<1> DEFINE cell == [width |-> w, value |-> v]
           whole == <<cell>> \o rest
<1>1. <<cell>> \in Seq(S) /\ Len(<<cell>>) = 1 /\ <<cell>>[1] = cell
  OBVIOUS
<1>2. cell.width = w /\ cell.value = v
  OBVIOUS
<1> HIDE DEF cell
<1>3. /\ whole \in Seq(S) /\ Len(whole) = 1 + Len(rest) /\ Len(rest) \in Nat
      /\ \A i \in 1 .. 1 + Len(rest) : whole[i] = IF i <= 1 THEN <<cell>>[i] ELSE rest[i - 1]
  BY <1>1, ConcatProperties, LenProperties
<1> HIDE DEF whole
<1>4. whole # <<>> /\ whole[1] = cell
  BY <1>1, <1>3
<1>5. Head(whole) = cell
  BY <1>3, <1>4
<1>6. Tail(whole) = rest
  <2>1. /\ Tail(whole) \in Seq(S) /\ Len(Tail(whole)) = Len(rest)
        /\ \A i \in 1 .. Len(Tail(whole)) : Tail(whole)[i] = whole[i + 1]
    BY <1>3, <1>4, HeadTailProperties
  <2>2. \A i \in 1 .. Len(Tail(whole)) : Tail(whole)[i] = rest[i]
    BY <1>3, <2>1
  <2> QED
    BY <2>1, <2>2, SeqEqual
<1>7. Put(w, v) \o rest = whole
  BY DEF Put, cell, whole
<1> QED
  BY <1>2, <1>4, <1>5, <1>6, <1>7 DEF Take

(* The cells of one field's piece, whatever it carries. *)
Cells(piece) == {piece[i] : i \in DOMAIN piece}

LEMMA PieceShape ==
  ASSUME NEW enums, NEW field, NEW value
  PROVE  LET piece == WriteField(enums, field, value) IN piece \in Seq(Cells(piece))
<1> DEFINE piece == WriteField(enums, field, value)
<1>1. ASSUME NEW w, NEW v, piece = Put(w, v)
      PROVE  piece \in Seq(Cells(piece))
  BY <1>1 DEF Put, Cells
<1>2. ASSUME NEW w, NEW v, NEW x, NEW y, piece = Put(w, v) \o Put(x, y)
      PROVE  piece \in Seq(Cells(piece))
  <2> DEFINE c == [width |-> w, value |-> v]
             e == [width |-> x, value |-> y]
  <2>1. piece = <<c>> \o <<e>>
    BY <1>2 DEF Put
  <2> HIDE DEF piece, c, e
  <2>2. <<c>> \in Seq({c, e}) /\ <<e>> \in Seq({c, e}) /\ Len(<<c>>) = 1 /\ Len(<<e>>) = 1
    OBVIOUS
  <2>3. /\ piece \in Seq({c, e}) /\ Len(piece) = 2
        /\ \A i \in 1 .. 2 : piece[i] = IF i <= 1 THEN <<c>>[i] ELSE <<e>>[i - 1]
    BY <2>1, <2>2, ConcatProperties
  <2>4. piece[1] = c /\ piece[2] = e /\ DOMAIN piece = 1 .. 2
    BY <2>3
  <2>5. {c, e} \subseteq Cells(piece)
    BY <2>4 DEF Cells
  <2> QED
    BY <2>3, <2>5, SeqMonotonic
<1> QED
  BY <1>1, <1>2 DEF WriteField

(* The reader of a field whose piece comes first gets the field's value    *)
(* and the rest.                                                           *)
Ahead(soFar, piece, rest) == soFar.rest = piece \o rest

Took(enums, soFar, field, value, rest) ==
  /\ ReadField(enums, soFar, field).values = Extended(soFar.values, field[1], value)
  /\ ReadField(enums, soFar, field).rest = rest

LEMMA ReadPiece ==
  ASSUME NEW S, NEW enums, NEW field, NEW value, NEW rest \in Seq(S), NEW soFar,
         Ahead(soFar, WriteField(enums, field, value), rest),
         Sendable(enums, field, value), WriteField(enums, field, value) \in Seq(S)
  PROVE  Took(enums, soFar, field, value, rest)
<1> DEFINE f == field[1]
           kind == field[2]
           piece == WriteField(enums, field, value)
           taken == Take(piece \o rest, Width(kind))
<1>w. /\ Width("option") = 1 /\ Width("u8") = 1 /\ "u8" # "option"
  BY DEF Width, Sizes
<1>s. soFar.rest = piece \o rest
  BY DEF Ahead
<1> SUFFICES /\ ReadField(enums, soFar, field).values = Extended(soFar.values, f, value)
             /\ ReadField(enums, soFar, field).rest = rest
  BY DEF Took
<1>0. ASSUME NEW w, NEW v, piece = Put(w, v), NEW tail \in Seq(S)
      PROVE  Take(piece \o tail, w) = [value |-> v, rest |-> tail]
  <2>1. [width |-> w, value |-> v] \in S
    <3>1. Put(w, v) \in Seq(S) /\ Len(Put(w, v)) = 1 /\ Put(w, v)[1] = [width |-> w, value |-> v]
      BY <1>0 DEF Put
    <3> HIDE DEF piece
    <3> DEFINE p == Put(w, v)
    <3> HIDE DEF p
    <3>2. p \in Seq(S) /\ 1 \in 1 .. Len(p)
      BY <3>1 DEF p
    <3>3. p[1] \in S
      BY <3>2, ElementOfSeq
    <3> QED
      BY <3>1, <3>3 DEF p
  <2> QED
    BY <1>0, <2>1, TakePut
<1>a. kind = "option" => f \notin DOMAIN enums
  BY DEF Sendable
<1>1. CASE kind = "option" /\ value = Default
  <2>1. piece = Put(1, 0)
    BY <1>1, <1>a DEF WriteField
  <2> HIDE DEF piece
  <2>2. taken = [value |-> 0, rest |-> rest]
    BY <1>0, <1>1, <1>w, <2>1
  <2> QED
    BY <1>1, <1>a, <2>2, <1>s DEF ReadField, Extended, piece
<1>2. CASE kind = "option" /\ value # Default
  <2> DEFINE key == Put(Width("key"), value)
  <2>1. piece = Put(1, 1) \o key
    BY <1>2, <1>a DEF WriteField
  <2> DEFINE c == [width |-> 1, value |-> 1]
             e == [width |-> Width("key"), value |-> value]
  <2>2. <<c>> \in Seq({c, e}) /\ <<e>> \in Seq({c, e}) /\ Len(<<c>>) = 1 /\ Len(<<e>>) = 1
        /\ <<c>>[1] = c /\ <<e>>[1] = e
    OBVIOUS
  <2>3. Put(1, 1) = <<c>> /\ key = <<e>>
    BY DEF Put
  <2> HIDE DEF piece, c, e, key
  <2>4. /\ piece \in Seq({c, e}) /\ Len(piece) = 2
        /\ \A i \in 1 .. 2 : piece[i] = IF i <= 1 THEN <<c>>[i] ELSE <<e>>[i - 1]
    BY <2>1, <2>2, <2>3, ConcatProperties
  <2>5. piece[1] = c /\ piece[2] = e
    BY <2>2, <2>4
  <2>6. piece \in Seq(S)
    BY DEF piece
  <2>7. c \in S /\ e \in S
    <3>1. 1 \in 1 .. Len(piece) /\ 2 \in 1 .. Len(piece)
      BY <2>4
    <3>2. piece[1] \in S /\ piece[2] \in S
      BY <2>6, <3>1, ElementOfSeq
    <3> QED
      BY <2>5, <3>2
  <2>8. <<c>> \in Seq(S) /\ <<e>> \in Seq(S)
    BY <2>7
  <2>9. <<e>> \o rest \in Seq(S)
    BY <2>8, ConcatProperties
  <2>b. (<<c>> \o <<e>>) \o rest = <<c>> \o (<<e>> \o rest)
    BY <2>8, ConcatAssociative
  <2>d. piece \o rest = Put(1, 1) \o (key \o rest)
    BY <2>1, <2>3, <2>b
  <2>10. taken = [value |-> 1, rest |-> key \o rest]
    <3>1. Take(Put(1, 1) \o (key \o rest), 1) = [value |-> 1, rest |-> key \o rest]
      <4>1. [width |-> 1, value |-> 1] \in S
        BY <2>7 DEF c
      <4>2. key \o rest \in Seq(S)
        BY <2>3, <2>9
      <4>3. ASSUME NEW w, NEW v, [width |-> w, value |-> v] \in S, NEW tail \in Seq(S)
            PROVE  Take(Put(w, v) \o tail, w) = [value |-> v, rest |-> tail]
        BY <4>3, TakePut
      <4> QED
        BY <4>1, <4>2, <4>3
    <3> QED
      BY <1>2, <1>w, <2>d, <3>1
  <2>11. Take(key \o rest, Width("key")) = [value |-> value, rest |-> rest]
    BY <2>7, TakePut DEF e, key
  <2>12. taken.value = 1 /\ taken.rest = key \o rest
    BY <2>10
  <2> HIDE DEF taken
  <2>13. ReadField(enums, soFar, field) =
           LET second == Take(taken.rest, Width("key"))
           IN  [values |-> Merged(soFar.values, [x \in {f} |-> second.value]),
                rest |-> second.rest]
    BY <1>2, <1>a, <1>s, <2>12 DEF ReadField, taken
  <2> QED
    BY <1>2, <1>s, <2>11, <2>12, <2>13 DEF Extended, piece
<1>3. CASE kind # "option" /\ f \in DOMAIN enums
  <2> DEFINE i == Index(enums[f], value)
  <2>1. piece = Put(1, i) /\ kind = "u8"
    BY <1>3 DEF WriteField, Sendable
  <2>2. i \in DOMAIN enums[f] /\ enums[f][i] = value
    BY <1>3 DEF Sendable, Index
  <2> HIDE DEF piece, i
  <2>3. taken = [value |-> i, rest |-> rest]
    BY <1>0, <1>w, <2>1
  <2> QED
    BY <1>3, <1>s, <2>2, <2>3 DEF ReadField, Extended, piece
<1>4. CASE kind # "option" /\ f \notin DOMAIN enums
  <2>1. piece = Put(Width(kind), value)
    BY <1>4 DEF WriteField
  <2> HIDE DEF piece
  <2>2. taken = [value |-> value, rest |-> rest]
    BY <1>0, <2>1
  <2> QED
    BY <1>4, <1>s, <2>2 DEF ReadField, Extended, piece
<1> QED
  BY <1>1, <1>2, <1>3, <1>4

(***************************************************************************)
(* A whole layout.                                                         *)
(***************************************************************************)

(* The names of the first k fields of a layout, and what they carry. *)
Names(layout, k) == {layout[i][1] : i \in 1 .. k}

Carried(layout, input, k) == [f \in Names(layout, k) |-> input[f]]

LEMMA CarriedExtends ==
  ASSUME NEW layout, NEW input, NEW k \in Nat \ {0}
  PROVE  Extended(Carried(layout, input, k - 1), layout[k][1], input[layout[k][1]])
         = Carried(layout, input, k)
<1> DEFINE f == layout[k][1]
<1>1. Names(layout, k) = Names(layout, k - 1) \union {f}
  <2>1. \A i \in 1 .. k : i = k \/ i \in 1 .. k - 1
    OBVIOUS
  <2> QED
    BY <2>1 DEF Names
<1> QED
  BY <1>1 DEF Extended, Merged, Carried

LEMMA NothingCarried ==
  ASSUME NEW layout, NEW input
  PROVE  <<>> = Carried(layout, input, 0)
<1>1. Names(layout, 0) = {}
  BY DEF Names
<1> QED
  BY <1>1 DEF Carried

(* What is read by a layout is what was written by it: every field that    *)
(* carries a value of its kind, whatever the values of the others.  By     *)
(* induction on the fields read, for any bytes that may follow.            *)
THEOREM RoundTrip ==
  ASSUME NEW enums, NEW layout, NEW input, NEW n \in Nat \ {0}, Len(layout) = n,
         DOMAIN layout = 1 .. n,
         \A i \in 1 .. n : Sendable(enums, layout[i], input[layout[i][1]])
  PROVE  Read(enums, layout, Write(enums, layout, input)) = Carried(layout, input, n)
<1> DEFINE Piece(i) == WriteField(enums, layout[i], input[layout[i][1]])
           S == UNION {Cells(Piece(i)) : i \in 1 .. n}
           bytes == Write(enums, layout, input)
<1>0. n \in Nat
  OBVIOUS
<1>1. PICK b : /\ bytes = b[n]
               /\ \A i \in 1 .. n : b[i] = IF i = 1 THEN Piece(i) ELSE b[i - 1] \o Piece(i)
  BY WriteUnfolds
<1>2. PICK a : /\ Read(enums, layout, bytes) = a[n].values
               /\ a[0] = [values |-> <<>>, rest |-> bytes]
               /\ \A i \in 1 .. n : a[i] = ReadField(enums, a[i - 1], layout[i])
  BY <1>0, ReadUnfolds
<1>3. \A i \in 1 .. n : Piece(i) \in Seq(S)
  <2> TAKE i \in 1 .. n
  <2>1. Piece(i) \in Seq(Cells(Piece(i)))
    BY PieceShape
  <2>2. Cells(Piece(i)) \subseteq S
    OBVIOUS
  <2> HIDE DEF S, Piece
  <2> QED
    BY <2>1, <2>2, SeqMonotonic
<1>4. ASSUME NEW i \in 1 .. n, NEW soFar, NEW rest \in Seq(S),
             Ahead(soFar, Piece(i), rest)
      PROVE  Took(enums, soFar, layout[i], input[layout[i][1]], rest)
  <2>1. Piece(i) \in Seq(S) /\ Sendable(enums, layout[i], input[layout[i][1]])
    BY <1>3
  <2> HIDE DEF S
  <2> QED
    BY <1>4, <2>1, ReadPiece
<1> HIDE DEF S, Piece, bytes
<1> DEFINE start(i) == IF i = 0 THEN <<>> ELSE b[i]
           P == {i \in 0 .. n : /\ start(i) \in Seq(S)
                                /\ \A rest \in Seq(S) :
                                     bytes = start(i) \o rest =>
                                       /\ a[i].values = Carried(layout, input, i)
                                       /\ a[i].rest = rest}
<1>5. 0 \in P
  <2>1. <<>> \in Seq(S) /\ \A rest \in Seq(S) : <<>> \o rest = rest
    BY EmptySeq, ConcatEmptySeq
  <2>2. a[0].values = Carried(layout, input, 0) /\ a[0].rest = bytes
    BY <1>2, NothingCarried
  <2> QED
    BY <2>1, <2>2
<1>6. ASSUME NEW k \in 1 .. n, k - 1 \in P
      PROVE  k \in P
  <2>1. /\ start(k - 1) \in Seq(S)
        /\ \A rest \in Seq(S) :
             bytes = start(k - 1) \o rest =>
               a[k - 1].values = Carried(layout, input, k - 1) /\ a[k - 1].rest = rest
    BY <1>6
  <2>2. Piece(k) \in Seq(S)
    BY <1>3
  <2>3. start(k) = start(k - 1) \o Piece(k)
    <3>1. CASE k = 1
      <4>1. start(k) = Piece(k) /\ start(k - 1) = <<>>
        BY <1>1, <3>1
      <4> QED
        BY <2>2, <4>1, ConcatEmptySeq
    <3>2. CASE k # 1
      <4>1. start(k) = b[k] /\ start(k - 1) = b[k - 1]
        BY <3>2
      <4> QED
        BY <1>1, <3>2, <4>1
    <3> QED
      BY <3>1, <3>2
  <2> HIDE DEF start
  <2>4. start(k) \in Seq(S)
    BY <2>1, <2>2, <2>3, ConcatProperties
  <2>5. ASSUME NEW rest \in Seq(S), bytes = start(k) \o rest
        PROVE  a[k].values = Carried(layout, input, k) /\ a[k].rest = rest
    <3>1. Piece(k) \o rest \in Seq(S)
      BY <2>2, ConcatProperties
    <3>2. (start(k - 1) \o Piece(k)) \o rest = start(k - 1) \o (Piece(k) \o rest)
      <4> DEFINE s == start(k - 1)
                 t == Piece(k)
      <4>1. s \in Seq(S) /\ t \in Seq(S)
        BY <2>1, <2>2
      <4> HIDE DEF s, t
      <4>2. (s \o t) \o rest = s \o (t \o rest)
        BY <4>1, ConcatAssociative
      <4> QED
        BY <4>2 DEF s, t
    <3>3. /\ a[k - 1].values = Carried(layout, input, k - 1)
          /\ a[k - 1].rest = Piece(k) \o rest
      BY <2>1, <2>3, <2>5, <3>1, <3>2
    <3>4. a[k] = ReadField(enums, a[k - 1], layout[k])
      BY <1>2
    <3>5. /\ a[k].values = Extended(Carried(layout, input, k - 1), layout[k][1],
                                     input[layout[k][1]])
          /\ a[k].rest = rest
      <4>1. Ahead(a[k - 1], Piece(k), rest)
        BY <3>3 DEF Ahead
      <4>2. Took(enums, a[k - 1], layout[k], input[layout[k][1]], rest)
        BY <1>4, <4>1
      <4> QED
        BY <3>3, <3>4, <4>2 DEF Took
    <3> QED
      BY <3>5, CarriedExtends
  <2> QED
    <3>1. k \in 0 .. n
      OBVIOUS
    <3> QED
      BY <2>4, <2>5, <3>1
<1> HIDE DEF P
<1>7. n \in P
  <2>1. \A k \in 1 .. n : k - 1 \in P => k \in P
    BY <1>6
  <2>2. n \in 0 .. n
    BY <1>0
  <2> QED
    BY <1>0, <1>5, <2>1, <2>2, Upwards
<1>8. bytes = start(n) /\ start(n) \in Seq(S)
  BY <1>1, <1>7 DEF P
<1>9. bytes = start(n) \o <<>> /\ <<>> \in Seq(S)
  BY <1>8, ConcatEmptySeq, EmptySeq
<1>10. a[n].values = Carried(layout, input, n)
  BY <1>7, <1>9 DEF P
<1> QED
  BY <1>2, <1>10 DEF bytes

(***************************************************************************)
(* The two sides' tables.                                                  *)
(***************************************************************************)
LEMMA EnumsAgree == ClientEnums = ProgramEnums
BY DEF ClientEnums, ProgramEnums, DealStates

(* The digest is of the same fields, and accounts are read in the order    *)
(* they are stored in.                                                     *)
LEMMA LayoutsAgree ==
  /\ SerializeTerms = DealTermsFields
  /\ Decoders = Layouts
<1>1. SerializeTerms = DealTermsFields
  BY DEF SerializeTerms, DealTermsFields
<1>2. DecodeDeal = DealLayout
  BY <1>1 DEF DecodeDeal, DealLayout
<1>3. DecodeLoan = LoanLayout /\ DecodeVault = VaultLayout
  BY DEF DecodeLoan, LoanLayout, DecodeVault, VaultLayout
<1> QED
  BY <1>1, <1>2, <1>3 DEF Decoders, Layouts

Instructions ==
  {"proposeDeal", "confirmDeal", "cancelDeal", "beginFunding", "markActive", "closeDeal",
   "initializeVault", "depositCollateral", "lockVault", "releaseCollateral",
   "seizeCollateral", "activateLoan", "makePayment", "repayInFull", "flagDefault",
   "markLiquidated", "evaluate", "executePartialLiquidation", "executeFullLiquidation"}

LEMMA ProgramNames ==
  /\ DOMAIN RegistryBuilders = DOMAIN RegistryHandlers
  /\ DOMAIN RegistryBuilders = {"proposeDeal", "confirmDeal", "cancelDeal",
                                "beginFunding", "markActive", "closeDeal"}
  /\ DOMAIN VaultBuilders = DOMAIN VaultHandlers
  /\ DOMAIN VaultBuilders = {"initializeVault", "depositCollateral", "lockVault",
                             "releaseCollateral", "seizeCollateral"}
  /\ DOMAIN LoanBuilders = DOMAIN LoanHandlers
  /\ DOMAIN LoanBuilders = {"activateLoan", "makePayment", "repayInFull", "flagDefault",
                            "markLiquidated"}
  /\ DOMAIN EngineBuilders = DOMAIN EngineHandlers
  /\ DOMAIN EngineBuilders = {"evaluate", "executePartialLiquidation",
                              "executeFullLiquidation"}
<1>1. /\ DOMAIN RegistryBuilders = DOMAIN RegistryHandlers
      /\ DOMAIN RegistryBuilders = {"proposeDeal", "confirmDeal", "cancelDeal",
                                    "beginFunding", "markActive", "closeDeal"}
  BY DEF RegistryBuilders, RegistryHandlers
<1>2. /\ DOMAIN VaultBuilders = DOMAIN VaultHandlers
      /\ DOMAIN VaultBuilders = {"initializeVault", "depositCollateral", "lockVault",
                                 "releaseCollateral", "seizeCollateral"}
  BY DEF VaultBuilders, VaultHandlers
<1>3. /\ DOMAIN LoanBuilders = DOMAIN LoanHandlers
      /\ DOMAIN LoanBuilders = {"activateLoan", "makePayment", "repayInFull",
                                "flagDefault", "markLiquidated"}
  BY DEF LoanBuilders, LoanHandlers
<1>4. /\ DOMAIN EngineBuilders = DOMAIN EngineHandlers
      /\ DOMAIN EngineBuilders = {"evaluate", "executePartialLiquidation",
                                  "executeFullLiquidation"}
  BY DEF EngineBuilders, EngineHandlers
<1> QED
  BY <1>1, <1>2, <1>3, <1>4

LEMMA TableNames == DOMAIN Builders = Instructions /\ DOMAIN HandlerTable = Instructions
<1>5. DOMAIN Builders = (DOMAIN RegistryBuilders \union DOMAIN VaultBuilders)
                       \union (DOMAIN LoanBuilders \union DOMAIN EngineBuilders)
  BY DEF Builders, Merged
<1>6. DOMAIN HandlerTable = (DOMAIN RegistryHandlers \union DOMAIN VaultHandlers)
                           \union (DOMAIN LoanHandlers \union DOMAIN EngineHandlers)
  BY DEF HandlerTable, Merged
<1>7. DOMAIN Builders = DOMAIN HandlerTable
  BY ProgramNames, <1>5, <1>6
<1>8. DOMAIN Builders = Instructions
  BY ProgramNames, <1>5, Zenon DEF Instructions
<1> QED
  BY <1>7, <1>8

(* Three lists in a row are the list that has their elements in order. *)
LEMMA ThreeParts ==
  ASSUME NEW S, NEW s \in Seq(S), NEW t \in Seq(S), NEW u \in Seq(S), NEW whole \in Seq(S),
         Len(whole) = Len(s) + Len(t) + Len(u),
         \A i \in 1 .. Len(s) : whole[i] = s[i],
         \A i \in 1 .. Len(t) : whole[Len(s) + i] = t[i],
         \A i \in 1 .. Len(u) : whole[Len(s) + Len(t) + i] = u[i]
  PROVE  s \o t \o u = whole
<1> DEFINE front == s \o t
           all == front \o u
           a == Len(s)
           b == Len(t)
           c == Len(u)
<1>0. a \in Nat /\ b \in Nat /\ c \in Nat
  BY LenProperties
<1>1. /\ front \in Seq(S) /\ Len(front) = a + b
      /\ \A i \in 1 .. a + b : front[i] = IF i <= a THEN s[i] ELSE t[i - a]
  BY ConcatProperties
<1> HIDE DEF front
<1>2. /\ all \in Seq(S) /\ Len(all) = (a + b) + c
      /\ \A i \in 1 .. (a + b) + c : all[i] = IF i <= a + b THEN front[i] ELSE u[i - (a + b)]
  <2>1. /\ all \in Seq(S) /\ Len(all) = Len(front) + Len(u)
        /\ \A i \in 1 .. Len(front) + Len(u) :
             all[i] = IF i <= Len(front) THEN front[i] ELSE u[i - Len(front)]
    BY <1>1, ConcatProperties
  <2> HIDE DEF all
  <2> QED
    BY <1>1, <2>1
<1>w. /\ Len(whole) = (a + b) + c /\ \A i \in 1 .. a : whole[i] = s[i]
      /\ \A i \in 1 .. b : whole[a + i] = t[i]
      /\ \A i \in 1 .. c : whole[a + b + i] = u[i]
  OBVIOUS
<1> HIDE DEF all, a, b, c
<1>3. ASSUME NEW i \in 1 .. (a + b) + c
      PROVE  all[i] = whole[i]
  <2>1. CASE i <= a
    <3>1. i \in 1 .. a + b /\ i \in 1 .. a /\ i <= a + b
      BY <1>0, <2>1
    <3> QED
      BY <1>1, <1>2, <1>w, <2>1, <3>1
  <2>2. CASE i > a /\ i <= a + b
    <3>1. i \in 1 .. a + b /\ i - a \in 1 .. b /\ a + (i - a) = i /\ ~ (i <= a)
      BY <1>0, <2>2
    <3>2. whole[a + (i - a)] = t[i - a]
      BY <1>w, <3>1
    <3> QED
      BY <1>1, <1>2, <2>2, <3>1, <3>2
  <2>3. CASE i > a + b
    <3>1. i - (a + b) \in 1 .. c /\ a + b + (i - (a + b)) = i /\ ~ (i <= a + b)
      BY <1>0, <2>3
    <3>2. whole[a + b + (i - (a + b))] = u[i - (a + b)]
      BY <1>w, <3>1
    <3> QED
      BY <1>2, <2>3, <3>1, <3>2
  <2> QED
    BY <1>0, <2>1, <2>2, <2>3
<1>4. all = whole
  <2>1. Len(all) = Len(whole) /\ \A i \in 1 .. Len(all) : all[i] = whole[i]
    BY <1>2, <1>3, <1>w
  <2> QED
    BY <1>2, <2>1, SeqEqual
<1> QED
  BY <1>4 DEF all, front

(* The fields a proposal carries, one by one. *)
LEMMA ProposalFields ==
  <<DealIdField>> \o DealTermsFields \o
  <<Byte("visibility"), Byte("creatorSide"), Optional("counterparty")>>
  = <<DealIdField, Amount("principal"), Key("loanMint"), Key("collateralMint"),
      Amount("collateral"), Short("rate"), Short("duration"), Short("ltv"),
      Byte("visibility"), Byte("creatorSide"), Optional("counterparty")>>
<1> DEFINE Field == {DealIdField, Amount("principal"), Key("loanMint"),
                     Key("collateralMint"), Amount("collateral"), Short("rate"),
                     Short("duration"), Short("ltv"), Byte("visibility"),
                     Byte("creatorSide"), Optional("counterparty")}
           front == <<DealIdField>>
           back == <<Byte("visibility"), Byte("creatorSide"), Optional("counterparty")>>
           whole == <<DealIdField, Amount("principal"), Key("loanMint"),
                      Key("collateralMint"), Amount("collateral"), Short("rate"),
                      Short("duration"), Short("ltv"), Byte("visibility"),
                      Byte("creatorSide"), Optional("counterparty")>>
<1>1. /\ front \in Seq(Field) /\ back \in Seq(Field) /\ whole \in Seq(Field)
      /\ DealTermsFields \in Seq(Field)
  BY DEF DealTermsFields
<1> HIDE DEF Field
<1>2. /\ Len(front) = 1 /\ Len(DealTermsFields) = 7 /\ Len(back) = 3
      /\ Len(whole) = 1 + 7 + 3
  BY DEF DealTermsFields
<1>3. /\ \A i \in 1 .. 1 : whole[i] = front[i]
      /\ \A i \in 1 .. 7 : whole[1 + i] = DealTermsFields[i]
      /\ \A i \in 1 .. 3 : whole[1 + 7 + i] = back[i]
  BY DEF DealTermsFields
<1> HIDE DEF front, back, whole
<1>4. /\ Len(whole) = Len(front) + Len(DealTermsFields) + Len(back)
      /\ \A i \in 1 .. Len(front) : whole[i] = front[i]
      /\ \A i \in 1 .. Len(DealTermsFields) : whole[Len(front) + i] = DealTermsFields[i]
      /\ \A i \in 1 .. Len(back) : whole[Len(front) + Len(DealTermsFields) + i] = back[i]
  BY <1>2, <1>3
<1>5. front \o DealTermsFields \o back = whole
  BY <1>1, <1>4, ThreeParts
<1> QED
  BY <1>5 DEF front, back, whole

(* The fields of a stored deal, one by one. *)
AllDealFields ==
  <<DealIdField, Key("creator"), Key("borrower"), Key("lender"), Byte("creatorSide"),
    Amount("principal"), Key("loanMint"), Key("collateralMint"), Amount("collateral"),
    Short("rate"), Short("duration"), Short("ltv"), Byte("visibility"), Byte("origin"),
    Byte("dealState"), Stamp("createdAt"), Stamp("confirmedAt"), Byte("bump")>>

LEMMA DealFields == DealLayout = AllDealFields
<1> DEFINE front == <<DealIdField, Key("creator"), Key("borrower"), Key("lender"),
                      Byte("creatorSide")>>
           back == <<Byte("visibility"), Byte("origin"), Byte("dealState"),
                     Stamp("createdAt"), Stamp("confirmedAt"), Byte("bump")>>
           Field == {DealIdField, Key("creator"), Key("borrower"), Key("lender"),
                     Byte("creatorSide"), Amount("principal"), Key("loanMint"),
                     Key("collateralMint"), Amount("collateral"), Short("rate"),
                     Short("duration"), Short("ltv"), Byte("visibility"), Byte("origin"),
                     Byte("dealState"), Stamp("createdAt"), Stamp("confirmedAt"),
                     Byte("bump")}
<1>1. /\ front \in Seq(Field) /\ back \in Seq(Field) /\ AllDealFields \in Seq(Field)
      /\ DealTermsFields \in Seq(Field)
  BY DEF DealTermsFields, AllDealFields
<1> HIDE DEF Field
<1>2. /\ Len(front) = 5 /\ Len(DealTermsFields) = 7 /\ Len(back) = 6
      /\ Len(AllDealFields) = 5 + 7 + 6
  BY DEF DealTermsFields, AllDealFields
<1>3. /\ \A i \in 1 .. 5 : AllDealFields[i] = front[i]
      /\ \A i \in 1 .. 7 : AllDealFields[5 + i] = DealTermsFields[i]
      /\ \A i \in 1 .. 6 : AllDealFields[5 + 7 + i] = back[i]
  BY DEF DealTermsFields, AllDealFields
<1> HIDE DEF front, back
<1>4. /\ Len(AllDealFields) = Len(front) + Len(DealTermsFields) + Len(back)
      /\ \A i \in 1 .. Len(front) : AllDealFields[i] = front[i]
      /\ \A i \in 1 .. Len(DealTermsFields) : AllDealFields[Len(front) + i] = DealTermsFields[i]
      /\ \A i \in 1 .. Len(back) : AllDealFields[Len(front) + Len(DealTermsFields) + i] = back[i]
  BY <1>2, <1>3
<1>5. front \o DealTermsFields \o back = AllDealFields
  BY <1>1, <1>4, ThreeParts
<1> QED
  BY <1>5 DEF front, back, DealLayout

(* An account stands in the place of its role and may do what the program  *)
(* requires of it.                                                         *)
KeyFits(sent, required) ==
  /\ sent.role = required.role
  /\ required.signs => sent.signs
  /\ required.writable => sent.writable

KeysFit(sent, required) ==
  /\ Len(sent) = Len(required)
  /\ \A i \in DOMAIN required : KeyFits(sent[i], required[i])

LEMMA KeyRules ==
  /\ \A key : KeyFits(key, key)
  /\ \A role : KeyFits(Signer(role), Reads(role)) /\ KeyFits(Writer(role), Reader(role))
BY DEF KeyFits, Signer, Writer, Reader, Reads

Agree(ix, handler) == ix.data = handler.data /\ KeysFit(ix.keys, handler.keys)

LEMMA KeyLists ==
  /\ \A s : KeysFit(s, s)
  /\ \A a1, a2, b1, b2 :
       KeyFits(a1, b1) /\ KeyFits(a2, b2) => KeysFit(<<a1, a2>>, <<b1, b2>>)
  /\ \A a1, a2, a3, b1, b2, b3 :
       KeyFits(a1, b1) /\ KeyFits(a2, b2) /\ KeyFits(a3, b3)
         => KeysFit(<<a1, a2, a3>>, <<b1, b2, b3>>)
  /\ \A a1, a2, a3, a4, b1, b2, b3, b4 :
       KeyFits(a1, b1) /\ KeyFits(a2, b2) /\ KeyFits(a3, b3) /\ KeyFits(a4, b4)
         => KeysFit(<<a1, a2, a3, a4>>, <<b1, b2, b3, b4>>)
  /\ \A a1, a2, a3, a4, a5, a6, b2 :
       KeyFits(a2, b2)
         => KeysFit(<<a1, a2, a3, a4, a5, a6>>, <<a1, b2, a3, a4, a5, a6>>)
<1>1. \A s : KeysFit(s, s)
  BY KeyRules DEF KeysFit
<1>2. \A a1, a2, b1, b2 :
        KeyFits(a1, b1) /\ KeyFits(a2, b2) => KeysFit(<<a1, a2>>, <<b1, b2>>)
  BY DEF KeysFit
<1>3. \A a1, a2, a3, b1, b2, b3 :
        KeyFits(a1, b1) /\ KeyFits(a2, b2) /\ KeyFits(a3, b3)
          => KeysFit(<<a1, a2, a3>>, <<b1, b2, b3>>)
  BY DEF KeysFit
<1>4. \A a1, a2, a3, a4, b1, b2, b3, b4 :
        KeyFits(a1, b1) /\ KeyFits(a2, b2) /\ KeyFits(a3, b3) /\ KeyFits(a4, b4)
          => KeysFit(<<a1, a2, a3, a4>>, <<b1, b2, b3, b4>>)
  BY DEF KeysFit
<1>5. \A a1, a2, a3, a4, a5, a6, b2 :
        KeyFits(a2, b2)
          => KeysFit(<<a1, a2, a3, a4, a5, a6>>, <<a1, b2, a3, a4, a5, a6>>)
  BY KeyRules DEF KeysFit
<1> QED
  BY <1>1, <1>2, <1>3, <1>4, <1>5

LEMMA EngineDataAgrees ==
  /\ EngineBuilders.evaluate.data = EngineHandlers.evaluate.data
  /\ EngineBuilders.executePartialLiquidation.data
       = EngineHandlers.executePartialLiquidation.data
  /\ EngineBuilders.executeFullLiquidation.data = EngineHandlers.executeFullLiquidation.data
<1>1. EncodePositionInput = PositionFields
  BY DEF EncodePositionInput, PositionFields
<1> QED
  BY <1>1 DEF EngineBuilders, EngineHandlers, Ix

LEMMA RegistryAgrees ==
  \A name \in DOMAIN RegistryBuilders : Agree(RegistryBuilders[name], RegistryHandlers[name])
<1>1. Agree(RegistryBuilders.proposeDeal, RegistryHandlers.proposeDeal)
  <2>1. RegistryBuilders.proposeDeal.data = RegistryHandlers.proposeDeal.data
    BY ProposalFields DEF RegistryBuilders, RegistryHandlers, Ix
  <2>2. KeysFit(RegistryBuilders.proposeDeal.keys, RegistryHandlers.proposeDeal.keys)
    BY KeyRules, KeyLists DEF RegistryBuilders, RegistryHandlers, Ix
  <2> QED
    BY <2>1, <2>2 DEF Agree
<1>2. Agree(RegistryBuilders.confirmDeal, RegistryHandlers.confirmDeal)
  <2>1. RegistryBuilders.confirmDeal.data = RegistryHandlers.confirmDeal.data
    BY DEF RegistryBuilders, RegistryHandlers, Ix
  <2>2. KeysFit(RegistryBuilders.confirmDeal.keys, RegistryHandlers.confirmDeal.keys)
    BY KeyRules, KeyLists DEF RegistryBuilders, RegistryHandlers, Ix
  <2> QED
    BY <2>1, <2>2 DEF Agree
<1>3. Agree(RegistryBuilders.cancelDeal, RegistryHandlers.cancelDeal)
  <2>1. RegistryBuilders.cancelDeal.data = RegistryHandlers.cancelDeal.data
    BY DEF RegistryBuilders, RegistryHandlers, Ix
  <2>2. KeysFit(RegistryBuilders.cancelDeal.keys, RegistryHandlers.cancelDeal.keys)
    BY KeyRules, KeyLists DEF RegistryBuilders, RegistryHandlers, Ix
  <2> QED
    BY <2>1, <2>2 DEF Agree
<1>4. Agree(RegistryBuilders.beginFunding, RegistryHandlers.beginFunding)
  <2>1. RegistryBuilders.beginFunding.data = RegistryHandlers.beginFunding.data
    BY DEF RegistryBuilders, RegistryHandlers, Ix
  <2>2. KeysFit(RegistryBuilders.beginFunding.keys, RegistryHandlers.beginFunding.keys)
    BY KeyRules, KeyLists DEF RegistryBuilders, RegistryHandlers, Ix
  <2> QED
    BY <2>1, <2>2 DEF Agree
<1>5. Agree(RegistryBuilders.markActive, RegistryHandlers.markActive)
  <2>1. RegistryBuilders.markActive.data = RegistryHandlers.markActive.data
    BY DEF RegistryBuilders, RegistryHandlers, Ix
  <2>2. KeysFit(RegistryBuilders.markActive.keys, RegistryHandlers.markActive.keys)
    BY KeyRules, KeyLists DEF RegistryBuilders, RegistryHandlers, Ix
  <2> QED
    BY <2>1, <2>2 DEF Agree
<1>6. Agree(RegistryBuilders.closeDeal, RegistryHandlers.closeDeal)
  <2>1. RegistryBuilders.closeDeal.data = RegistryHandlers.closeDeal.data
    BY DEF RegistryBuilders, RegistryHandlers, Ix
  <2>2. KeysFit(RegistryBuilders.closeDeal.keys, RegistryHandlers.closeDeal.keys)
    BY KeyRules, KeyLists DEF RegistryBuilders, RegistryHandlers, Ix
  <2> QED
    BY <2>1, <2>2 DEF Agree
<1> QED
  BY <1>1, <1>2, <1>3, <1>4, <1>5, <1>6 DEF RegistryBuilders

LEMMA VaultAgrees ==
  \A name \in DOMAIN VaultBuilders : Agree(VaultBuilders[name], VaultHandlers[name])
<1>1. Agree(VaultBuilders.initializeVault, VaultHandlers.initializeVault)
  <2>1. VaultBuilders.initializeVault.data = VaultHandlers.initializeVault.data
    BY DEF VaultBuilders, VaultHandlers, Ix
  <2>2. KeysFit(VaultBuilders.initializeVault.keys, VaultHandlers.initializeVault.keys)
    BY KeyRules, KeyLists DEF VaultBuilders, VaultHandlers, Ix
  <2> QED
    BY <2>1, <2>2 DEF Agree
<1>2. Agree(VaultBuilders.depositCollateral, VaultHandlers.depositCollateral)
  <2>1. VaultBuilders.depositCollateral.data = VaultHandlers.depositCollateral.data
    BY DEF VaultBuilders, VaultHandlers, Ix
  <2>2. KeysFit(VaultBuilders.depositCollateral.keys, VaultHandlers.depositCollateral.keys)
    BY KeyRules, KeyLists DEF VaultBuilders, VaultHandlers, Ix
  <2> QED
    BY <2>1, <2>2 DEF Agree
<1>3. Agree(VaultBuilders.lockVault, VaultHandlers.lockVault)
  <2>1. VaultBuilders.lockVault.data = VaultHandlers.lockVault.data
    BY DEF VaultBuilders, VaultHandlers, Ix
  <2>2. KeysFit(VaultBuilders.lockVault.keys, VaultHandlers.lockVault.keys)
    BY KeyRules, KeyLists DEF VaultBuilders, VaultHandlers, Ix
  <2> QED
    BY <2>1, <2>2 DEF Agree
<1>4. Agree(VaultBuilders.releaseCollateral, VaultHandlers.releaseCollateral)
  <2>1. VaultBuilders.releaseCollateral.data = VaultHandlers.releaseCollateral.data
    BY DEF VaultBuilders, VaultHandlers, Ix
  <2>2. KeysFit(VaultBuilders.releaseCollateral.keys, VaultHandlers.releaseCollateral.keys)
    BY KeyRules, KeyLists DEF VaultBuilders, VaultHandlers, Ix
  <2> QED
    BY <2>1, <2>2 DEF Agree
<1>5. Agree(VaultBuilders.seizeCollateral, VaultHandlers.seizeCollateral)
  <2>1. VaultBuilders.seizeCollateral.data = VaultHandlers.seizeCollateral.data
    BY DEF VaultBuilders, VaultHandlers, Ix
  <2>2. KeysFit(VaultBuilders.seizeCollateral.keys, VaultHandlers.seizeCollateral.keys)
    BY KeyRules, KeyLists DEF VaultBuilders, VaultHandlers, Ix
  <2> QED
    BY <2>1, <2>2 DEF Agree
<1> QED
  BY <1>1, <1>2, <1>3, <1>4, <1>5 DEF VaultBuilders

LEMMA LoanAgrees ==
  \A name \in DOMAIN LoanBuilders : Agree(LoanBuilders[name], LoanHandlers[name])
<1>1. Agree(LoanBuilders.activateLoan, LoanHandlers.activateLoan)
  <2>1. LoanBuilders.activateLoan.data = LoanHandlers.activateLoan.data
    BY DEF LoanBuilders, LoanHandlers, ActivateLoanData, Ix
  <2>2. KeysFit(LoanBuilders.activateLoan.keys, LoanHandlers.activateLoan.keys)
    BY KeyRules, KeyLists DEF LoanBuilders, LoanHandlers, Ix
  <2> QED
    BY <2>1, <2>2 DEF Agree
<1>2. Agree(LoanBuilders.makePayment, LoanHandlers.makePayment)
  <2>1. LoanBuilders.makePayment.data = LoanHandlers.makePayment.data
    BY DEF LoanBuilders, LoanHandlers, Ix
  <2>2. KeysFit(LoanBuilders.makePayment.keys, LoanHandlers.makePayment.keys)
    BY KeyRules, KeyLists DEF LoanBuilders, LoanHandlers, Repayment, Ix
  <2> QED
    BY <2>1, <2>2 DEF Agree
<1>3. Agree(LoanBuilders.repayInFull, LoanHandlers.repayInFull)
  <2>1. LoanBuilders.repayInFull.data = LoanHandlers.repayInFull.data
    BY DEF LoanBuilders, LoanHandlers, Ix
  <2>2. KeysFit(LoanBuilders.repayInFull.keys, LoanHandlers.repayInFull.keys)
    BY KeyRules, KeyLists DEF LoanBuilders, LoanHandlers, Repayment, Ix
  <2> QED
    BY <2>1, <2>2 DEF Agree
<1>4. Agree(LoanBuilders.flagDefault, LoanHandlers.flagDefault)
  <2>1. LoanBuilders.flagDefault.data = LoanHandlers.flagDefault.data
    BY DEF LoanBuilders, LoanHandlers, Ix
  <2>2. KeysFit(LoanBuilders.flagDefault.keys, LoanHandlers.flagDefault.keys)
    BY KeyRules, KeyLists DEF LoanBuilders, LoanHandlers, Ix
  <2> QED
    BY <2>1, <2>2 DEF Agree
<1>5. Agree(LoanBuilders.markLiquidated, LoanHandlers.markLiquidated)
  <2>1. LoanBuilders.markLiquidated.data = LoanHandlers.markLiquidated.data
    BY DEF LoanBuilders, LoanHandlers, Ix
  <2>2. KeysFit(LoanBuilders.markLiquidated.keys, LoanHandlers.markLiquidated.keys)
    BY KeyRules, KeyLists DEF LoanBuilders, LoanHandlers, Ix
  <2> QED
    BY <2>1, <2>2 DEF Agree
<1> QED
  BY <1>1, <1>2, <1>3, <1>4, <1>5 DEF LoanBuilders

LEMMA EngineAgrees ==
  \A name \in DOMAIN EngineBuilders : Agree(EngineBuilders[name], EngineHandlers[name])
<1>1. Agree(EngineBuilders.evaluate, EngineHandlers.evaluate)
  <2>1. EngineBuilders.evaluate.data = EngineHandlers.evaluate.data
    BY EngineDataAgrees
  <2>2. KeysFit(EngineBuilders.evaluate.keys, EngineHandlers.evaluate.keys)
    BY KeyRules, KeyLists DEF EngineBuilders, EngineHandlers, Ix
  <2> QED
    BY <2>1, <2>2 DEF Agree
<1>2. Agree(EngineBuilders.executePartialLiquidation, EngineHandlers.executePartialLiquidation)
  <2>1. EngineBuilders.executePartialLiquidation.data = EngineHandlers.executePartialLiquidation.data
    BY EngineDataAgrees
  <2>2. KeysFit(EngineBuilders.executePartialLiquidation.keys, EngineHandlers.executePartialLiquidation.keys)
    BY KeyRules, KeyLists DEF EngineBuilders, EngineHandlers, Ix
  <2> QED
    BY <2>1, <2>2 DEF Agree
<1>3. Agree(EngineBuilders.executeFullLiquidation, EngineHandlers.executeFullLiquidation)
  <2>1. EngineBuilders.executeFullLiquidation.data = EngineHandlers.executeFullLiquidation.data
    BY EngineDataAgrees
  <2>2. KeysFit(EngineBuilders.executeFullLiquidation.keys, EngineHandlers.executeFullLiquidation.keys)
    BY KeyRules, KeyLists DEF EngineBuilders, EngineHandlers, Ix
  <2> QED
    BY <2>1, <2>2 DEF Agree
<1> QED
  BY <1>1, <1>2, <1>3 DEF EngineBuilders

(* Both tables, program by program. *)
LEMMA TableEntries ==
  /\ \A x \in DOMAIN RegistryBuilders :
       Builders[x] = RegistryBuilders[x] /\ HandlerTable[x] = RegistryHandlers[x]
  /\ \A x \in DOMAIN VaultBuilders :
       Builders[x] = VaultBuilders[x] /\ HandlerTable[x] = VaultHandlers[x]
  /\ \A x \in DOMAIN LoanBuilders :
       Builders[x] = LoanBuilders[x] /\ HandlerTable[x] = LoanHandlers[x]
  /\ \A x \in DOMAIN EngineBuilders :
       Builders[x] = EngineBuilders[x] /\ HandlerTable[x] = EngineHandlers[x]
<1> DEFINE one == Merged(RegistryBuilders, VaultBuilders)
           two == Merged(LoanBuilders, EngineBuilders)
           first == Merged(RegistryHandlers, VaultHandlers)
           second == Merged(LoanHandlers, EngineHandlers)
<1>0. Builders = Merged(one, two) /\ HandlerTable = Merged(first, second)
  BY DEF Builders, HandlerTable
<1>1. DOMAIN one = DOMAIN RegistryBuilders \union DOMAIN VaultBuilders
  BY DEF Merged
<1>2. DOMAIN first = DOMAIN one
  BY <1>1, ProgramNames DEF Merged
<1>3. /\ \A x \in DOMAIN RegistryBuilders :
           x \in DOMAIN one /\ one[x] = RegistryBuilders[x] /\ first[x] = RegistryHandlers[x]
      /\ \A x \in DOMAIN VaultBuilders :
           x \in DOMAIN one /\ one[x] = VaultBuilders[x] /\ first[x] = VaultHandlers[x]
  BY ProgramNames DEF Merged
<1>4. /\ \A x \in DOMAIN LoanBuilders :
           x \in DOMAIN two /\ two[x] = LoanBuilders[x] /\ second[x] = LoanHandlers[x]
      /\ \A x \in DOMAIN EngineBuilders :
           x \in DOMAIN two /\ two[x] = EngineBuilders[x] /\ second[x] = EngineHandlers[x]
      /\ DOMAIN second = DOMAIN two
  BY ProgramNames DEF Merged
<1>5. \A x \in DOMAIN LoanBuilders \union DOMAIN EngineBuilders : x \notin DOMAIN one
  BY <1>1, ProgramNames
<1> HIDE DEF one, two, first, second
<1>6. /\ \A x \in DOMAIN one : Builders[x] = one[x] /\ HandlerTable[x] = first[x]
      /\ \A x \in DOMAIN two : x \notin DOMAIN one =>
           Builders[x] = two[x] /\ HandlerTable[x] = second[x]
  BY <1>0, <1>2, <1>4 DEF Merged
<1> QED
  BY <1>3, <1>4, <1>5, <1>6

(* Every instruction the client builds is one a program declares, with the *)
(* same arguments in the same order and the accounts it requires.          *)
LEMMA TablesAgree ==
  ASSUME NEW name \in Instructions
  PROVE  Agree(Builders[name], HandlerTable[name])
<1>1. name \in DOMAIN Builders
  BY TableNames
<1>2. DOMAIN Builders = (DOMAIN RegistryBuilders \union DOMAIN VaultBuilders)
                       \union (DOMAIN LoanBuilders \union DOMAIN EngineBuilders)
  BY DEF Builders, Merged
<1> QED
  BY <1>1, <1>2, TableEntries, RegistryAgrees, VaultAgrees, LoanAgrees, EngineAgrees

(* A list of fields of which only those with the given names are           *)
(* enumerated, and those in one byte, or the digest of a deal's terms.     *)
Plain(f) == f \notin DOMAIN ClientEnums /\ f # "termsHash"

FieldProper(names, field) ==
  /\ field[1] \in DOMAIN ClientEnums => field[2] = "u8"
  /\ ~ Plain(field[1]) => field[1] \in names

Proper(names, layout) ==
  layout \in Seq(Cells(layout)) /\ \A field \in Cells(layout) : FieldProper(names, field)

LEMMA EnumNames ==
  DOMAIN ClientEnums = {"visibility", "creatorSide", "outcome", "origin", "dealState",
                        "loanState", "vaultState"}
BY DEF ClientEnums

LEMMA FieldRules ==
  ASSUME NEW names
  PROVE  /\ FieldProper(names, DealIdField)
         /\ "termsHash" \in names => FieldProper(names, Digest)
         /\ \A f : Plain(f) => /\ FieldProper(names, Amount(f))
                               /\ FieldProper(names, Key(f))
                               /\ FieldProper(names, Short(f))
                               /\ FieldProper(names, Byte(f))
                               /\ FieldProper(names, Stamp(f))
                               /\ FieldProper(names, Optional(f))
         /\ \A f \in names : FieldProper(names, Byte(f))
<1>1. /\ FieldProper(names, DealIdField)
      /\ "termsHash" \in names => FieldProper(names, Digest)
  BY EnumNames DEF FieldProper, Plain, DealIdField, Digest
<1>2. ASSUME NEW f, Plain(f)
      PROVE  /\ FieldProper(names, Amount(f)) /\ FieldProper(names, Key(f))
             /\ FieldProper(names, Short(f)) /\ FieldProper(names, Byte(f))
             /\ FieldProper(names, Stamp(f)) /\ FieldProper(names, Optional(f))
  BY <1>2 DEF Plain, FieldProper, Amount, Key, Short, Byte, Stamp, Optional
<1>3. \A f \in names : FieldProper(names, Byte(f))
  BY DEF FieldProper, Plain, Byte
<1> QED
  BY <1>1, <1>2, <1>3

LEMMA PlainNames ==
  \A f \in {"principal", "loanMint", "collateralMint", "collateral", "rate", "duration",
            "ltv", "counterparty", "loanAuthority", "liquidationAuthority", "amount",
            "required", "treasuryFee", "fully", "outstandingDebt", "collateralDecimals",
            "loanDecimals", "maxLtv", "partialLtv", "fullLtv", "missedPayment", "penalty",
            "maxPartial", "terminalDefault", "creator", "borrower", "lender", "createdAt",
            "confirmedAt", "bump", "totalRepayment", "installment", "finalInstallment",
            "paymentsMade", "totalPaid", "activatedAt", "tokenAccount"} : Plain(f)
BY EnumNames DEF Plain

LEMMA ProperJoin ==
  ASSUME NEW names, NEW s, NEW t, Proper(names, s), Proper(names, t)
  PROVE  Proper(names, s \o t)
<1> DEFINE S == Cells(s) \union Cells(t)
           both == s \o t
<1>1. Cells(s) \subseteq S /\ Cells(t) \subseteq S
  OBVIOUS
<1>2. s \in Seq(Cells(s)) /\ t \in Seq(Cells(t))
  BY DEF Proper
<1>3. \A field \in S : FieldProper(names, field)
  BY DEF Proper
<1> HIDE DEF S
<1>4. s \in Seq(S) /\ t \in Seq(S)
  BY <1>1, <1>2, SeqMonotonic
<1>5. both \in Seq(S)
  BY <1>4, ConcatProperties
<1> HIDE DEF both
<1>6. \A i \in 1 .. Len(both) : both[i] \in S
  BY <1>5, ElementOfSeq
<1>7. Len(both) \in Nat /\ DOMAIN both = 1 .. Len(both) /\ both \in [1 .. Len(both) -> S]
  BY <1>5, LenProperties
<1>8. \A i \in 1 .. Len(both) : both[i] \in Cells(both)
  BY <1>7 DEF Cells
<1>9. both \in [1 .. Len(both) -> Cells(both)]
  BY <1>7, <1>8
<1>10. both \in Seq(Cells(both))
  BY <1>7, <1>9, SeqDef
<1>11. Cells(both) \subseteq S
  BY <1>6, <1>7 DEF Cells
<1> QED
  BY <1>3, <1>10, <1>11 DEF Proper, both

(* Lists of none, one, three, six and eight proper fields. *)
LEMMA ProperNone == ASSUME NEW names PROVE Proper(names, <<>>)
BY DEF Proper, Cells

LEMMA ProperOne ==
  ASSUME NEW names, NEW a1,
         FieldProper(names, a1)
  PROVE  Proper(names, <<a1>>)
<1> DEFINE list == <<a1>>
<1>1. list \in Seq(Cells(list)) /\ Cells(list) = {a1}
  BY DEF Cells
<1> HIDE DEF list
<1>2. Proper(names, list)
  BY <1>1 DEF Proper
<1> QED
  BY <1>2 DEF list

LEMMA ProperThree ==
  ASSUME NEW names, NEW a1, NEW a2, NEW a3,
         FieldProper(names, a1), FieldProper(names, a2), FieldProper(names, a3)
  PROVE  Proper(names, <<a1, a2, a3>>)
<1> DEFINE list == <<a1, a2, a3>>
<1>1. list \in Seq(Cells(list)) /\ Cells(list) = {a1, a2, a3}
  BY DEF Cells
<1> HIDE DEF list
<1>2. Proper(names, list)
  BY <1>1 DEF Proper
<1> QED
  BY <1>2 DEF list

LEMMA ProperSix ==
  ASSUME NEW names, NEW a1, NEW a2, NEW a3, NEW a4, NEW a5, NEW a6,
         FieldProper(names, a1), FieldProper(names, a2), FieldProper(names, a3),
         FieldProper(names, a4), FieldProper(names, a5), FieldProper(names, a6)
  PROVE  Proper(names, <<a1, a2, a3, a4, a5, a6>>)
<1> DEFINE list == <<a1, a2, a3, a4, a5, a6>>
<1>1. list \in Seq(Cells(list)) /\ Cells(list) = {a1, a2, a3, a4, a5, a6}
  BY DEF Cells
<1> HIDE DEF list
<1>2. Proper(names, list)
  BY <1>1 DEF Proper
<1> QED
  BY <1>2 DEF list

LEMMA ProperEight ==
  ASSUME NEW names, NEW a1, NEW a2, NEW a3, NEW a4, NEW a5, NEW a6, NEW a7, NEW a8,
         FieldProper(names, a1), FieldProper(names, a2), FieldProper(names, a3),
         FieldProper(names, a4), FieldProper(names, a5), FieldProper(names, a6),
         FieldProper(names, a7), FieldProper(names, a8)
  PROVE  Proper(names, <<a1, a2, a3, a4, a5, a6, a7, a8>>)
<1> DEFINE list == <<a1, a2, a3, a4, a5, a6, a7, a8>>
<1>1. list \in Seq(Cells(list)) /\ Cells(list) = {a1, a2, a3, a4, a5, a6, a7, a8}
  BY DEF Cells
<1> HIDE DEF list
<1>2. Proper(names, list)
  BY <1>1 DEF Proper
<1> QED
  BY <1>2 DEF list

(* The enumerated arguments of each instruction, and the digest. *)
Marked(name) ==
  CASE name = "proposeDeal" -> {"visibility", "creatorSide"}
    [] name = "confirmDeal" -> {"termsHash"}
    [] OTHER -> {"outcome"}

LEMMA RegistryFields ==
  \A name \in DOMAIN RegistryBuilders : Proper(Marked(name), RegistryBuilders[name].data)
<1>1. Proper(Marked("proposeDeal"), RegistryBuilders.proposeDeal.data)
  <2> DEFINE names == {"visibility", "creatorSide"}
             data == <<DealIdField, Amount("principal"), Key("loanMint"),
                       Key("collateralMint"), Amount("collateral"), Short("rate"),
                       Short("duration"), Short("ltv"), Byte("visibility"),
                       Byte("creatorSide"), Optional("counterparty")>>
  <2>1. RegistryBuilders.proposeDeal.data = data /\ Marked("proposeDeal") = names
    BY DEF RegistryBuilders, Ix, Marked
  <2>2. /\ data \in Seq(Cells(data))
        /\ Cells(data) = {DealIdField, Amount("principal"), Key("loanMint"),
                          Key("collateralMint"), Amount("collateral"), Short("rate"),
                          Short("duration"), Short("ltv"), Byte("visibility"),
                          Byte("creatorSide"), Optional("counterparty")}
    BY DEF Cells
  <2>3. "visibility" \in names /\ "creatorSide" \in names
    OBVIOUS
  <2> HIDE DEF data, names
  <2>4. Proper(names, data)
    BY <2>2, <2>3, FieldRules, PlainNames DEF Proper
  <2> QED
    BY <2>1, <2>4
<1>2. Proper({"termsHash"}, RegistryBuilders.confirmDeal.data)
  BY FieldRules, ProperOne DEF RegistryBuilders, Ix
<1>3. /\ Proper({"outcome"}, RegistryBuilders.cancelDeal.data)
      /\ Proper({"outcome"}, RegistryBuilders.beginFunding.data)
      /\ Proper({"outcome"}, RegistryBuilders.markActive.data)
  BY ProperNone DEF RegistryBuilders, Ix
<1>4. Proper({"outcome"}, RegistryBuilders.closeDeal.data)
  BY FieldRules, ProperOne DEF RegistryBuilders, Ix
<1> QED
  BY <1>1, <1>2, <1>3, <1>4, ProgramNames DEF Marked

LEMMA VaultFields ==
  \A name \in DOMAIN VaultBuilders : Proper({"outcome"}, VaultBuilders[name].data)
<1>1. Proper({"outcome"}, VaultBuilders.initializeVault.data)
  BY FieldRules, PlainNames, ProperThree DEF VaultBuilders, Ix
<1>2. Proper({"outcome"}, VaultBuilders.depositCollateral.data)
  BY FieldRules, PlainNames, ProperOne DEF VaultBuilders, Ix
<1>3. Proper({"outcome"}, VaultBuilders.lockVault.data)
  BY FieldRules, PlainNames, ProperOne DEF VaultBuilders, Ix
<1>4. Proper({"outcome"}, VaultBuilders.releaseCollateral.data)
  BY ProperNone DEF VaultBuilders, Ix
<1>5. Proper({"outcome"}, VaultBuilders.seizeCollateral.data)
  BY FieldRules, PlainNames, ProperOne DEF VaultBuilders, Ix
<1> QED
  BY <1>1, <1>2, <1>3, <1>4, <1>5, ProgramNames

LEMMA LoanFields ==
  \A name \in DOMAIN LoanBuilders : Proper({"outcome"}, LoanBuilders[name].data)
<1>1. Proper({"outcome"}, LoanBuilders.activateLoan.data)
  BY FieldRules, PlainNames, ProperSix DEF LoanBuilders, ActivateLoanData, Ix
<1>2. Proper({"outcome"}, LoanBuilders.makePayment.data)
  BY FieldRules, PlainNames, ProperOne DEF LoanBuilders, Ix
<1>3. /\ Proper({"outcome"}, LoanBuilders.repayInFull.data)
      /\ Proper({"outcome"}, LoanBuilders.flagDefault.data)
  BY ProperNone DEF LoanBuilders, Ix
<1>4. Proper({"outcome"}, LoanBuilders.markLiquidated.data)
  BY FieldRules, PlainNames, ProperOne DEF LoanBuilders, Ix
<1> QED
  BY <1>1, <1>2, <1>3, <1>4, ProgramNames

LEMMA EngineFields ==
  \A name \in DOMAIN EngineBuilders : Proper({"outcome"}, EngineBuilders[name].data)
<1>1. Proper({"outcome"}, EncodePositionInput)
  BY FieldRules, PlainNames, ProperEight DEF EncodePositionInput
<1>2. Proper({"outcome"}, <<Amount("missedPayment"), Short("penalty"), Short("maxPartial")>>)
  BY FieldRules, PlainNames, ProperThree
<1>3. Proper({"outcome"}, <<Byte("terminalDefault")>>)
  BY FieldRules, PlainNames, ProperOne
<1>4. Proper({"outcome"}, EngineBuilders.evaluate.data)
  BY <1>1 DEF EngineBuilders, Ix
<1>5. Proper({"outcome"}, EngineBuilders.executePartialLiquidation.data)
  BY <1>1, <1>2, ProperJoin DEF EngineBuilders, Ix
<1>6. Proper({"outcome"}, EngineBuilders.executeFullLiquidation.data)
  BY <1>1, <1>3, ProperJoin DEF EngineBuilders, Ix
<1> QED
  BY <1>4, <1>5, <1>6, ProgramNames

LEMMA BuilderFields ==
  ASSUME NEW name \in Instructions
  PROVE  Proper(Marked(name), Builders[name].data)
<1>1. name \in (DOMAIN RegistryBuilders \union DOMAIN VaultBuilders)
               \union (DOMAIN LoanBuilders \union DOMAIN EngineBuilders)
  BY ProgramNames DEF Instructions
<1>2. CASE name \in DOMAIN RegistryBuilders
  BY <1>2, TableEntries, RegistryFields
<1>3. CASE name \notin DOMAIN RegistryBuilders
  <2>1. Marked(name) = {"outcome"}
    BY <1>3, ProgramNames DEF Marked
  <2> QED
    BY <1>1, <1>3, <2>1, TableEntries, VaultFields, LoanFields, EngineFields
<1> QED
  BY <1>2, <1>3

(* The enumerated fields of each account. *)
LEMMA DealProper == Proper({"creatorSide", "visibility", "origin", "dealState"}, DealLayout)
<1> DEFINE names == {"creatorSide", "visibility", "origin", "dealState"}
<1>1. /\ AllDealFields \in Seq(Cells(AllDealFields))
      /\ Cells(AllDealFields) =
           {DealIdField, Key("creator"), Key("borrower"), Key("lender"), Byte("creatorSide"),
            Amount("principal"), Key("loanMint"), Key("collateralMint"), Amount("collateral"),
            Short("rate"), Short("duration"), Short("ltv"), Byte("visibility"),
            Byte("origin"), Byte("dealState"), Stamp("createdAt"), Stamp("confirmedAt"),
            Byte("bump")}
  BY DEF Cells, AllDealFields
<1>2. {"creatorSide", "visibility", "origin", "dealState"} \subseteq names
  OBVIOUS
<1> HIDE DEF names
<1>3. /\ FieldProper(names, DealIdField) /\ FieldProper(names, Key("creator"))
      /\ FieldProper(names, Key("borrower")) /\ FieldProper(names, Key("lender"))
      /\ FieldProper(names, Byte("creatorSide")) /\ FieldProper(names, Amount("principal"))
      /\ FieldProper(names, Key("loanMint")) /\ FieldProper(names, Key("collateralMint"))
      /\ FieldProper(names, Amount("collateral")) /\ FieldProper(names, Short("rate"))
  BY <1>2, FieldRules, PlainNames
<1>4. /\ FieldProper(names, Short("duration")) /\ FieldProper(names, Short("ltv"))
      /\ FieldProper(names, Byte("visibility")) /\ FieldProper(names, Byte("origin"))
      /\ FieldProper(names, Byte("dealState")) /\ FieldProper(names, Stamp("createdAt"))
      /\ FieldProper(names, Stamp("confirmedAt")) /\ FieldProper(names, Byte("bump"))
  BY <1>2, FieldRules, PlainNames
<1>5. Proper(names, AllDealFields)
  BY <1>1, <1>3, <1>4 DEF Proper
<1> QED
  BY <1>5, DealFields DEF names

LEMMA LoanProper == Proper({"loanState"}, LoanLayout)
<1>1. /\ LoanLayout \in Seq(Cells(LoanLayout))
      /\ Cells(LoanLayout) =
           {DealIdField, Key("borrower"), Key("lender"), Key("loanMint"),
            Amount("principal"), Short("rate"), Short("duration"), Amount("collateral"),
            Amount("totalRepayment"), Amount("installment"), Amount("finalInstallment"),
            Short("paymentsMade"), Amount("totalPaid"), Stamp("activatedAt"),
            Byte("loanState"), Byte("bump")}
  BY DEF Cells, LoanLayout
<1> DEFINE names == {"loanState"}
<1>2. "loanState" \in names
  OBVIOUS
<1> HIDE DEF names
<1>3. /\ FieldProper(names, DealIdField) /\ FieldProper(names, Key("borrower"))
      /\ FieldProper(names, Key("lender")) /\ FieldProper(names, Key("loanMint"))
      /\ FieldProper(names, Amount("principal")) /\ FieldProper(names, Short("rate"))
      /\ FieldProper(names, Short("duration")) /\ FieldProper(names, Amount("collateral"))
  BY FieldRules, PlainNames
<1>4. /\ FieldProper(names, Amount("totalRepayment"))
      /\ FieldProper(names, Amount("installment"))
      /\ FieldProper(names, Amount("finalInstallment"))
      /\ FieldProper(names, Short("paymentsMade")) /\ FieldProper(names, Amount("totalPaid"))
      /\ FieldProper(names, Stamp("activatedAt")) /\ FieldProper(names, Byte("loanState"))
      /\ FieldProper(names, Byte("bump"))
  BY <1>2, FieldRules, PlainNames
<1>5. Proper(names, LoanLayout)
  BY <1>1, <1>3, <1>4 DEF Proper
<1> QED
  BY <1>5 DEF names

LEMMA VaultProper == Proper({"vaultState"}, VaultLayout)
<1>1. /\ VaultLayout \in Seq(Cells(VaultLayout))
      /\ Cells(VaultLayout) =
           {DealIdField, Key("borrower"), Key("collateralMint"), Key("tokenAccount"),
            Key("loanAuthority"), Key("liquidationAuthority"), Amount("collateral"),
            Byte("vaultState"), Byte("bump")}
  BY DEF Cells, VaultLayout
<1> DEFINE names == {"vaultState"}
<1>2. "vaultState" \in names
  OBVIOUS
<1> HIDE DEF names
<1>3. /\ FieldProper(names, DealIdField) /\ FieldProper(names, Key("borrower"))
      /\ FieldProper(names, Key("collateralMint")) /\ FieldProper(names, Key("tokenAccount"))
      /\ FieldProper(names, Key("loanAuthority"))
      /\ FieldProper(names, Key("liquidationAuthority"))
      /\ FieldProper(names, Amount("collateral")) /\ FieldProper(names, Byte("vaultState"))
      /\ FieldProper(names, Byte("bump"))
  BY <1>2, FieldRules, PlainNames
<1>4. Proper(names, VaultLayout)
  BY <1>1, <1>3 DEF Proper
<1> QED
  BY <1>4 DEF names

(***************************************************************************)
(* What arrives of a list of proper fields whose enumerated ones carry     *)
(* names.                                                                  *)
(***************************************************************************)
Named(f, value) == \E i \in DOMAIN ClientEnums[f] : ClientEnums[f][i] = value

LEMMA EnumValues ==
  /\ \A v \in {"Private", "Public"} : Named("visibility", v)
  /\ \A v \in {"Borrower", "Lender"} : Named("creatorSide", v)
  /\ \A v \in {"Direct", "Marketplace"} : Named("origin", v)
  /\ \A v \in CloseOutcome : Named("outcome", v)
  /\ \A v \in DealState : Named("dealState", v)
<1>1. /\ ClientEnums["visibility"] = <<"Private", "Public">>
      /\ ClientEnums["creatorSide"] = <<"Borrower", "Lender">>
      /\ ClientEnums["origin"] = <<"Direct", "Marketplace">>
      /\ ClientEnums["outcome"] = <<"Completed", "PartiallyLiquidated", "FullyLiquidated">>
      /\ ClientEnums["dealState"] = DealStates
  BY DEF ClientEnums
<1>2. \A v \in {"Private", "Public"} : Named("visibility", v)
  BY <1>1 DEF Named
<1>3. \A v \in {"Borrower", "Lender"} : Named("creatorSide", v)
  BY <1>1 DEF Named
<1>4. \A v \in {"Direct", "Marketplace"} : Named("origin", v)
  BY <1>1 DEF Named
<1>5. \A v \in CloseOutcome : Named("outcome", v)
  BY <1>1 DEF Named, CloseOutcome
<1>6. \A v \in DealState : Named("dealState", v)
  BY <1>1 DEF Named, DealState, DealStates
<1> QED
  BY <1>2, <1>3, <1>4, <1>5, <1>6

Sound(names, layout, input) ==
  \A i \in DOMAIN layout :
    layout[i][1] \in names \intersect DOMAIN ClientEnums =>
      Named(layout[i][1], input[layout[i][1]])

LEMMA ProperArrives ==
  ASSUME NEW names, NEW layout, NEW input, Proper(names, layout), Sound(names, layout, input),
         NEW i \in DOMAIN layout
  PROVE  Read(ClientEnums, layout, Write(ClientEnums, layout, input))[layout[i][1]]
         = input[layout[i][1]]
<1> DEFINE n == Len(layout)
<1>1. layout \in Seq(Cells(layout)) /\ \A field \in Cells(layout) : FieldProper(names, field)
  BY DEF Proper
<1>2. n \in Nat /\ DOMAIN layout = 1 .. n
  BY <1>1, LenProperties
<1>3. n \in Nat \ {0}
  BY <1>2
<1>4. \A k \in 1 .. n : Sendable(ClientEnums, layout[k], input[layout[k][1]])
  <2> TAKE k \in 1 .. n
  <2>1. layout[k] \in Cells(layout)
    BY <1>2 DEF Cells
  <2>2. FieldProper(names, layout[k])
    BY <1>1, <2>1
  <2> QED
    BY <1>2, <2>2 DEF FieldProper, Plain, Sendable, Sound, Named
<1>5. Read(ClientEnums, layout, Write(ClientEnums, layout, input)) = Carried(layout, input, n)
  BY <1>2, <1>3, <1>4, RoundTrip
<1>6. layout[i][1] \in Names(layout, n)
  BY <1>2 DEF Names
<1> QED
  BY <1>5, <1>6 DEF Carried


(***************************************************************************)
(* The inductive invariant.  What is on its way was written from the       *)
(* client's table with values its fields can carry, and a digest is of the *)
(* terms on the screen; what is stored has the shape the program gives it, *)
(* and names only wallets that signed for its terms.                       *)
(***************************************************************************)
Written(message) ==
  LET data == Builders[message.name].data
      sent == Sent(data, message.input)
  IN  /\ message.name \in Instructions
      /\ message.by \in Wallets
      /\ message.keys = Builders[message.name].keys
      /\ message.bytes = Write(ClientEnums, data, sent)
      /\ Sound(Marked(message.name), data, sent)
      /\ message.name = "confirmDeal" =>
           message.input.termsHash =
             SerializedBy(ProgramEnums, DealTermsFields, message.input.seen)

Bound(d) ==
  LET deal == deals[d]
  IN  /\ DOMAIN deal = {"creator", "borrower", "lender", "creatorSide", "visibility", "terms",
                        "state"}
      /\ deal.terms = Terms(deal.terms)
      /\ deal.creator \in Wallets
      /\ deal.creatorSide \in {"Borrower", "Lender"}
      /\ deal.visibility \in {"Private", "Public"}
      /\ deal.state \in DealState
      /\ deal.creator = IF deal.creatorSide = "Borrower" THEN deal.borrower ELSE deal.lender
      /\ deal.borrower # deal.lender
      /\ <<d, deal.creator, deal.terms>> \in signed
      /\ deal.state \in PastProposal =>
           /\ Default \notin {deal.borrower, deal.lender}
           /\ <<d, deal.borrower, deal.terms>> \in signed
           /\ <<d, deal.lender, deal.terms>> \in signed

Registered ==
  /\ DOMAIN deals = Deals
  /\ \A d \in Deals : HasDeal(d) => Bound(d)

WireInv ==
  /\ flight # Empty => Written(flight)
  /\ Registered
  /\ ArgumentsArrive
  /\ ShownIsStored

(***************************************************************************)
(* What is sent.                                                           *)
(***************************************************************************)
LEMMA ShortNames == DOMAIN Shorts = ShortFields
BY WireAssumption

(* The encoders lose nothing of a whole number of sixteen bits. *)
LEMMA FitsSixteenBits ==
  ASSUME NEW x \in Nat, x % 2 = 0, x < 2 * 65536
  PROVE  Low16(x) = x \div 2
<1>1. x \div 2 \in Nat
  OBVIOUS
<1>2. x \div 2 < 65536
  OBVIOUS
<1>3. \A y \in Nat : y < 65536 => y % 65536 = y
  OBVIOUS
<1>4. Whole(x) = x \div 2
  BY DEF Whole
<1> QED
  BY <1>1, <1>2, <1>3, <1>4 DEF Low16

LEMMA SentValue ==
  ASSUME NEW layout, NEW input, NEW i \in DOMAIN layout
  PROVE  Sent(layout, input)[layout[i][1]] =
           IF layout[i][1] \in DOMAIN Shorts THEN Low16(input[layout[i][1]])
           ELSE input[layout[i][1]]
BY DEF Sent

(* Everything the buttons pass can be sent. *)
LEMMA SendWrites ==
  ASSUME WireInv, NEW name \in Instructions, NEW by \in Wallets, NEW input,
         Send(name, by, input),
         Sound(Marked(name), Builders[name].data, Sent(Builders[name].data, input)),
         name = "confirmDeal" =>
           input.termsHash = SerializedBy(ProgramEnums, DealTermsFields, input.seen)
  PROVE  WireInv'
<1>1. Written(flight')
  <2> DEFINE message == [name |-> name, by |-> by, input |-> input,
                         keys |-> Builders[name].keys,
                         bytes |-> Write(ClientEnums, Builders[name].data,
                                         Sent(Builders[name].data, input))]
  <2>1. flight' = message
    BY DEF Send
  <2>2. /\ message.name = name /\ message.by = by /\ message.input = input
        /\ message.keys = Builders[name].keys
        /\ message.bytes = Write(ClientEnums, Builders[name].data,
                                 Sent(Builders[name].data, input))
    OBVIOUS
  <2> HIDE DEF message
  <2>3. Written(message)
    BY <2>2 DEF Written
  <2> QED
    BY <2>1, <2>3
<1>2. Registered'
  BY DEF WireInv, Registered, Bound, HasDeal, Send, dealVars
<1>3. ArgumentsArrive' /\ ShownIsStored'
  BY DEF ArgumentsArrive, ShownIsStored, Send
<1> QED
  BY <1>1, <1>2, <1>3 DEF WireInv

(* What a proposal is made of, by index. *)
LEMMA ProposalIndex ==
  LET data == Builders["proposeDeal"].data
  IN  /\ DOMAIN data = 1 .. 11
      /\ data[1] = DealIdField /\ data[2] = Amount("principal")
      /\ data[3] = Key("loanMint") /\ data[4] = Key("collateralMint")
      /\ data[5] = Amount("collateral") /\ data[6] = Short("rate")
      /\ data[7] = Short("duration") /\ data[8] = Short("ltv")
      /\ data[9] = Byte("visibility") /\ data[10] = Byte("creatorSide")
      /\ data[11] = Optional("counterparty")
<1>1. Builders["proposeDeal"].data = RegistryBuilders["proposeDeal"].data
  BY ProgramNames, TableEntries
<1> QED
  BY <1>1 DEF RegistryBuilders, Ix

LEMMA OneArgument ==
  /\ Builders["confirmDeal"].data = <<Digest>>
  /\ Builders["closeDeal"].data = <<Byte("outcome")>>
<1>1. /\ Builders["confirmDeal"].data = RegistryBuilders["confirmDeal"].data
      /\ Builders["closeDeal"].data = RegistryBuilders["closeDeal"].data
  BY ProgramNames, TableEntries
<1> QED
  BY <1>1 DEF RegistryBuilders, Ix

(* Whatever is typed, the form passes names of a side and a visibility.    *)
LEMMA FormPasses ==
  ASSUME NEW d, NEW form \in Forms
  PROVE  LET input == FromForm(d, form)
         IN  /\ input.visibility \in {"Private", "Public"}
             /\ input.creatorSide \in {"Borrower", "Lender"}
<1>1. form.side \in {"Borrower", "Lender"}
  BY WireAssumption DEF Form
<1> QED
  BY <1>1 DEF FromForm

LEMMA ProposeWrites ==
  ASSUME WireInv, NEW w \in Wallets, PressPropose(w)
  PROVE  WireInv'
<1>1. PICK d \in Deals, form \in Forms : Send("proposeDeal", w, FromForm(d, form))
  BY DEF PressPropose
<1> DEFINE input == FromForm(d, form)
           data == Builders["proposeDeal"].data
<1>2. /\ input.visibility \in {"Private", "Public"}
      /\ input.creatorSide \in {"Borrower", "Lender"}
  BY FormPasses
<1> HIDE DEF input, data
<1>3. Sound(Marked("proposeDeal"), data, Sent(data, input))
  <2> SUFFICES ASSUME NEW i \in DOMAIN data, data[i][1] \in Marked("proposeDeal")
               PROVE  Named(data[i][1], Sent(data, input)[data[i][1]])
    BY DEF Sound
  <2>1. data[i][1] \in {"visibility", "creatorSide"}
    BY DEF Marked
  <2>2. data[i][1] \notin DOMAIN Shorts
    BY <2>1, ShortNames DEF ShortFields
  <2>3. Sent(data, input)[data[i][1]] = input[data[i][1]]
    BY <2>2, SentValue
  <2> QED
    BY <1>2, <2>1, <2>3, EnumValues
<1>4. "proposeDeal" \in Instructions
  BY DEF Instructions
<1> QED
  BY <1>1, <1>3, <1>4, SendWrites DEF input, data

(* The digest that is confirmed is the program's of the deal on screen. *)
LEMMA ConfirmWrites ==
  ASSUME WireInv, NEW w \in Wallets, PressConfirm(w)
  PROVE  WireInv'
<1> DEFINE input == [termsHash |-> SerializedBy(ClientEnums, SerializeTerms, screen.shown),
                     dealId |-> screen.shown.dealId, seen |-> screen.shown]
           data == Builders["confirmDeal"].data
<1>1. Send("confirmDeal", w, input)
  BY DEF PressConfirm
<1>2. input.termsHash = SerializedBy(ProgramEnums, DealTermsFields, input.seen)
  BY EnumsAgree, LayoutsAgree
<1>3. \A i \in DOMAIN data : data[i][1] = "termsHash"
  BY OneArgument DEF Digest
<1> HIDE DEF input, data
<1>4. Sound(Marked("confirmDeal"), data, Sent(data, input))
  BY <1>3, EnumNames DEF Sound
<1>5. "confirmDeal" \in Instructions
  BY DEF Instructions
<1> QED
  BY <1>1, <1>2, <1>4, <1>5, SendWrites DEF data

(* The other buttons pass a name of the outcome. *)
LEMMA PressWrites ==
  ASSUME WireInv, NEW w \in Wallets, Press(w)
  PROVE  WireInv'
<1>1. PICK name \in DOMAIN Builders \ {"proposeDeal", "confirmDeal"} :
        \E input \in Given(name) : Send(name, w, input)
  BY DEF Press
<1>2. PICK input \in Given(name) : Send(name, w, input)
  BY <1>1
<1> DEFINE data == Builders[name].data
           fields == {data[i][1] : i \in DOMAIN data}
<1> DEFINE Passed(d, outcome) ==
             [f \in fields \union {"dealId"} |->
                CASE f = "dealId" -> d
                  [] f = "outcome" -> outcome
                  [] f \in DOMAIN Shorts -> Shorts[f]
                  [] OTHER -> f]
<1>3. Given(name) = {Passed(d, outcome) : d \in Deals, outcome \in CloseOutcome}
  BY DEF Given
<1> HIDE DEF Passed
<1>4. PICK d \in Deals, outcome \in CloseOutcome : input = Passed(d, outcome)
  BY <1>3
<1>5. input = [f \in fields \union {"dealId"} |->
                 CASE f = "dealId" -> d
                   [] f = "outcome" -> outcome
                   [] f \in DOMAIN Shorts -> Shorts[f]
                   [] OTHER -> f]
  BY <1>4 DEF Passed
<1>6. \A f \in fields : f = "outcome" => input[f] = outcome
  BY <1>5, ShortNames DEF ShortFields
<1>7. name \in Instructions /\ name # "confirmDeal" /\ name # "proposeDeal"
  BY TableNames
<1>8. Marked(name) = {"outcome"}
  BY <1>7 DEF Marked
<1> HIDE DEF data
<1>9. Sound(Marked(name), data, Sent(data, input))
  <2> SUFFICES ASSUME NEW i \in DOMAIN data, data[i][1] = "outcome"
               PROVE  Named("outcome", Sent(data, input)[data[i][1]])
    BY <1>8 DEF Sound
  <2>1. data[i][1] \notin DOMAIN Shorts
    BY ShortNames DEF ShortFields
  <2>2. Sent(data, input)[data[i][1]] = input[data[i][1]]
    BY <2>1, SentValue
  <2> QED
    BY <1>6, <2>2, EnumValues
<1> QED
  BY <1>2, <1>7, <1>9, SendWrites DEF data

(***************************************************************************)
(* What is shown.                                                          *)
(***************************************************************************)

(* An account whose every field has a place in its layout, read with the   *)
(* client's table out of what the program wrote.                           *)
LEMMA ShownWhole ==
  ASSUME NEW names, NEW layout, NEW account, Proper(names, layout),
         Sound(names, layout, account),
         NEW f \in DOMAIN account, \E i \in DOMAIN layout : layout[i][1] = f
  PROVE  Read(ClientEnums, layout, Write(ProgramEnums, layout, account))[f] = account[f]
<1>1. PICK i \in DOMAIN layout : layout[i][1] = f
  OBVIOUS
<1>2. Read(ClientEnums, layout, Write(ClientEnums, layout, account))[layout[i][1]]
      = account[layout[i][1]]
  BY ProperArrives
<1> QED
  BY <1>1, <1>2, EnumsAgree

(* Every field of a deal account has its place. *)
LEMMA DealPlaces ==
  \A f \in {"dealId", "creator", "borrower", "lender", "creatorSide", "principal",
            "loanMint", "collateralMint", "collateral", "rate", "duration", "ltv",
            "visibility", "origin", "dealState", "createdAt", "confirmedAt", "bump"} :
    \E i \in DOMAIN DealLayout : DealLayout[i][1] = f
<1> DEFINE layout == AllDealFields
<1>1. /\ DOMAIN layout = 1 .. 18
      /\ layout[1][1] = "dealId" /\ layout[2][1] = "creator" /\ layout[3][1] = "borrower"
      /\ layout[4][1] = "lender" /\ layout[5][1] = "creatorSide"
      /\ layout[6][1] = "principal" /\ layout[7][1] = "loanMint"
      /\ layout[8][1] = "collateralMint" /\ layout[9][1] = "collateral"
      /\ layout[10][1] = "rate" /\ layout[11][1] = "duration" /\ layout[12][1] = "ltv"
      /\ layout[13][1] = "visibility" /\ layout[14][1] = "origin"
      /\ layout[15][1] = "dealState" /\ layout[16][1] = "createdAt"
      /\ layout[17][1] = "confirmedAt" /\ layout[18][1] = "bump"
  BY DEF AllDealFields, DealIdField, Key, Amount, Short, Byte, Stamp
<1> HIDE DEF layout
<1>2. \A f \in {"dealId", "creator", "borrower", "lender", "creatorSide", "principal",
                "loanMint", "collateralMint", "collateral", "rate", "duration", "ltv",
                "visibility", "origin", "dealState", "createdAt", "confirmedAt", "bump"} :
        \E i \in DOMAIN layout : layout[i][1] = f
  BY <1>1
<1> QED
  BY <1>2, DealFields DEF layout

LEMMA DealShown ==
  ASSUME NEW d, Bound(d), NEW f \in DOMAIN StoredDeal(d)
  PROVE  Read(ClientEnums, DealLayout, Write(ProgramEnums, DealLayout, StoredDeal(d)))[f]
         = StoredDeal(d)[f]
<1> DEFINE deal == deals[d]
           rest == [dealId |-> d, creator |-> deal.creator, borrower |-> deal.borrower,
                    lender |-> deal.lender, creatorSide |-> deal.creatorSide,
                    visibility |-> deal.visibility, dealState |-> deal.state,
                    origin |-> IF deal.visibility = "Public" THEN "Marketplace"
                               ELSE "Direct",
                    createdAt |-> "createdAt", confirmedAt |-> "confirmedAt",
                    bump |-> "bump"]
           account == StoredDeal(d)
           names == {"creatorSide", "visibility", "origin", "dealState"}
<1>1. account = Merged(deal.terms, rest)
  BY DEF StoredDeal
<1>2. DOMAIN deal.terms = {"principal", "loanMint", "collateralMint", "collateral", "rate",
                           "duration", "ltv"}
  BY DEF Bound, Terms
<1>3. /\ DOMAIN rest = {"dealId", "creator", "borrower", "lender", "creatorSide",
                        "visibility", "dealState", "origin", "createdAt", "confirmedAt",
                        "bump"}
      /\ rest.creatorSide \in {"Borrower", "Lender"}
      /\ rest.visibility \in {"Private", "Public"}
      /\ rest.origin \in {"Direct", "Marketplace"} /\ rest.dealState \in DealState
  BY DEF Bound
<1> HIDE DEF rest, account, deal
<1>4. /\ DOMAIN account = DOMAIN deal.terms \union DOMAIN rest
      /\ \A x \in DOMAIN rest : x \notin DOMAIN deal.terms => account[x] = rest[x]
  BY <1>1 DEF Merged
<1>5. \E i \in DOMAIN DealLayout : DealLayout[i][1] = f
  <2>1. f \in DOMAIN account
    BY DEF account
  <2> QED
    BY <1>2, <1>3, <1>4, <2>1, DealPlaces
<1>6. /\ Named("creatorSide", account.creatorSide) /\ Named("visibility", account.visibility)
      /\ Named("origin", account.origin) /\ Named("dealState", account.dealState)
  BY <1>2, <1>3, <1>4, EnumValues
<1>7. Sound(names, DealLayout, account)
  BY <1>6 DEF Sound
<1> QED
  BY <1>5, <1>7, DealProper, ShownWhole DEF account

(* A loan or a vault in any state, with whatever in its other fields. *)
LEMMA OtherShown ==
  ASSUME NEW kind \in {"Loan", "Vault"}, NEW account \in Stored(kind),
         NEW f \in DOMAIN account
  PROVE  Read(ClientEnums, Layouts[kind], Write(ProgramEnums, Layouts[kind], account))[f]
         = account[f]
<1> DEFINE layout == Layouts[kind]
           state == IF kind = "Loan" THEN "loanState" ELSE "vaultState"
           places == {layout[i][1] : i \in DOMAIN layout}
           Account(n) ==
             [g \in places |-> IF g = state THEN ProgramEnums[state][n]
                               ELSE IF g \in DOMAIN Shorts THEN Low16(Shorts[g]) ELSE g]
<1>1. Stored(kind) = {Account(n) : n \in DOMAIN ProgramEnums[state]}
  BY DEF Stored
<1> HIDE DEF Account
<1>2. PICK n \in DOMAIN ProgramEnums[state] : account = Account(n)
  BY <1>1
<1>3. /\ DOMAIN account = places
      /\ state \in places => account[state] = ProgramEnums[state][n]
  BY <1>2 DEF Account
<1>4. Proper({state}, layout)
  BY LoanProper, VaultProper DEF Layouts
<1> HIDE DEF layout, state
<1>5. Sound({state}, layout, account)
  BY <1>3, EnumsAgree DEF Sound, Named
<1>6. \E i \in DOMAIN layout : layout[i][1] = f
  BY <1>3
<1> QED
  BY <1>4, <1>5, <1>6, ShownWhole DEF layout

LEMMA OpenShows ==
  ASSUME WireInv, Open
  PROVE  WireInv'
<1>1. PICK kind \in DOMAIN Layouts : \E account \in Stored(kind) :
        screen' = [kind |-> kind, stored |-> account,
                   shown |-> Read(ClientEnums, Decoders[kind],
                                  Write(ProgramEnums, Layouts[kind], account))]
  BY DEF Open
<1>2. PICK account \in Stored(kind) :
        screen' = [kind |-> kind, stored |-> account,
                   shown |-> Read(ClientEnums, Decoders[kind],
                                  Write(ProgramEnums, Layouts[kind], account))]
  BY <1>1
<1>3. kind \in {"Deal", "Loan", "Vault"}
  BY DEF Layouts
<1>4. \A f \in DOMAIN account :
        Read(ClientEnums, Layouts[kind], Write(ProgramEnums, Layouts[kind], account))[f]
        = account[f]
  <2>1. CASE kind = "Deal"
    <3>1. PICK d \in Deals : HasDeal(d) /\ account = StoredDeal(d)
      BY <2>1 DEF Stored
    <3>2. Bound(d) /\ Layouts[kind] = DealLayout
      BY <2>1, <3>1 DEF WireInv, Registered, Layouts
    <3> QED
      BY <3>1, <3>2, DealShown
  <2>2. CASE kind \in {"Loan", "Vault"}
    BY <2>2, OtherShown
  <2> QED
    BY <1>3, <2>1, <2>2
<1>5. screen'.stored = account
      /\ screen'.shown = Read(ClientEnums, Layouts[kind],
                              Write(ProgramEnums, Layouts[kind], account))
  BY <1>2, LayoutsAgree
<1>6. ShownIsStored'
  BY <1>4, <1>5 DEF ShownIsStored
<1>7. /\ flight' = Empty
      /\ received' = Empty /\ UNCHANGED dealVars
  BY DEF Open
<1>8. Registered' /\ ArgumentsArrive'
  BY <1>7 DEF WireInv, Registered, Bound, HasDeal, dealVars, ArgumentsArrive
<1> QED
  BY <1>6, <1>7, <1>8 DEF WireInv

(***************************************************************************)
(* What arrives.                                                           *)
(***************************************************************************)
Received(message) ==
  Read(ProgramEnums, HandlerTable[message.name].data, message.bytes)

(* The handler reads under each name what was sent under it.               *)
LEMMA ReceivedSent ==
  ASSUME NEW message, Written(message),
         NEW i \in DOMAIN Builders[message.name].data
  PROVE  LET data == Builders[message.name].data
         IN  Received(message)[data[i][1]] = Sent(data, message.input)[data[i][1]]
<1> DEFINE data == Builders[message.name].data
           sent == Sent(data, message.input)
<1>1. /\ message.name \in Instructions
      /\ message.bytes = Write(ClientEnums, data, sent)
      /\ Sound(Marked(message.name), data, sent)
  BY DEF Written
<1>2. HandlerTable[message.name].data = data
  BY <1>1, TablesAgree DEF Agree
<1>3. Proper(Marked(message.name), data)
  BY <1>1, BuilderFields
<1>4. Received(message) = Read(ClientEnums, data, Write(ClientEnums, data, sent))
  BY <1>1, <1>2, EnumsAgree DEF Received
<1> HIDE DEF data, sent
<1>5. i \in DOMAIN data
  BY DEF data
<1>6. Read(ClientEnums, data, Write(ClientEnums, data, sent))[data[i][1]] = sent[data[i][1]]
  BY <1>1, <1>3, <1>5, ProperArrives
<1> QED
  BY <1>4, <1>6 DEF data, sent

(* Which is what the page passed, where it fits.                           *)
LEMMA ReceivedPassed ==
  ASSUME NEW message, Written(message),
         NEW i \in DOMAIN Builders[message.name].data,
         Fits(Builders[message.name].data[i][1], message.input)
  PROVE  LET f == Builders[message.name].data[i][1]
         IN  Received(message)[f] =
               CASE f \in DOMAIN Shorts -> message.input[f] \div 2
                 [] f = "termsHash" ->
                      SerializedBy(ProgramEnums, DealTermsFields, message.input.seen)
                 [] OTHER -> message.input[f]
<1> DEFINE data == Builders[message.name].data
           f == data[i][1]
           input == message.input
<1>1. Received(message)[f] = Sent(data, input)[f]
  BY ReceivedSent
<1>2. Sent(data, input)[f] = IF f \in DOMAIN Shorts THEN Low16(input[f]) ELSE input[f]
  BY SentValue
<1>3. CASE f \in DOMAIN Shorts
  <2>1. Low16(input[f]) = input[f] \div 2
    BY <1>3, FitsSixteenBits DEF Fits
  <2>2. f # "termsHash"
    BY <1>3, ShortNames DEF ShortFields
  <2> QED
    BY <1>1, <1>2, <1>3, <2>1, <2>2
<1>4. CASE f = "termsHash"
  <2>1. f \notin DOMAIN Shorts
    BY <1>4, ShortNames DEF ShortFields
  <2>2. message.name = "confirmDeal"
    <3>1. Proper(Marked(message.name), data)
      BY BuilderFields DEF Written
    <3>2. data[i] \in Cells(data)
      BY DEF Cells
    <3>3. FieldProper(Marked(message.name), data[i])
      BY <3>1, <3>2 DEF Proper
    <3>4. "termsHash" \in Marked(message.name)
      BY <1>4, <3>3 DEF FieldProper, Plain
    <3> QED
      BY <3>4 DEF Marked
  <2>3. input[f] = SerializedBy(ProgramEnums, DealTermsFields, input.seen)
    BY <1>4, <2>2 DEF Written
  <2> QED
    BY <1>1, <1>2, <1>4, <2>1, <2>3
<1>5. CASE f \notin DOMAIN Shorts /\ f # "termsHash"
  BY <1>1, <1>2, <1>5
<1> QED
  BY <1>3, <1>4, <1>5

LEMMA ArriveReceives ==
  ASSUME WireInv, Arrive
  PROVE  ArgumentsArrive'
<1> DEFINE name == flight.name
           input == flight.input
<1>1. /\ Written(flight)
      /\ received' = [name |-> flight.name, input |-> flight.input,
                      args |-> Received(flight), keys |-> flight.keys]
  BY DEF WireInv, Arrive, Received
<1>2. /\ received'.name = name /\ received'.input = input
      /\ received'.args = Received(flight) /\ received'.keys = flight.keys
  BY <1>1
<1>3. name \in Instructions /\ flight.keys = Builders[name].keys
  BY <1>1 DEF Written
<1>4. Agree(Builders[name], HandlerTable[name])
  BY <1>3, TablesAgree
<1>5. \A i \in DOMAIN HandlerTable[name].data :
        LET f == HandlerTable[name].data[i][1]
        IN  Fits(f, input) =>
              Received(flight)[f] =
                CASE f \in DOMAIN Shorts -> input[f] \div 2
                  [] f = "termsHash" ->
                       SerializedBy(ProgramEnums, DealTermsFields, input.seen)
                  [] OTHER -> input[f]
  <2>1. HandlerTable[name].data = Builders[name].data
    BY <1>4 DEF Agree
  <2>2. SUFFICES ASSUME NEW i \in DOMAIN Builders[name].data,
                        Fits(Builders[name].data[i][1], input)
                 PROVE  LET f == Builders[name].data[i][1]
                        IN  Received(flight)[f] =
                              CASE f \in DOMAIN Shorts -> input[f] \div 2
                                [] f = "termsHash" ->
                                     SerializedBy(ProgramEnums, DealTermsFields, input.seen)
                                [] OTHER -> input[f]
    BY <2>1, Zenon
  <2> QED
    BY <1>1, <2>2, ReceivedPassed
<1>6. KeysFit(flight.keys, HandlerTable[name].keys)
  BY <1>3, <1>4 DEF Agree
<1>7. /\ Len(flight.keys) = Len(HandlerTable[name].keys)
      /\ \A i \in DOMAIN HandlerTable[name].keys :
           /\ flight.keys[i].role = HandlerTable[name].keys[i].role
           /\ HandlerTable[name].keys[i].signs => flight.keys[i].signs
           /\ HandlerTable[name].keys[i].writable => flight.keys[i].writable
  BY <1>6 DEF KeysFit, KeyFits
<1> QED
  BY <1>2, <1>5, <1>7, Zenon DEF ArgumentsArrive

(***************************************************************************)
(* What an instruction does to the deals.                                  *)
(***************************************************************************)

(* Terms with the same digest are the same terms, whatever else was on the *)
(* record they were taken from.                                            *)
LEMMA SameTerms ==
  ASSUME NEW t, NEW u, t = Terms(t), Hash(t) = Hash(Terms(u))
  PROVE  t = Terms(u)
<1>1. /\ t.principal = u.principal /\ t.loanMint = u.loanMint
      /\ t.collateralMint = u.collateralMint /\ t.collateral = u.collateral
      /\ t.rate = u.rate /\ t.duration = u.duration /\ t.ltv = u.ltv
  BY DEF Hash, Terms
<1> QED
  BY <1>1 DEF Terms

(* One deal changes, and nothing that was signed is forgotten.             *)
LEMMA OneDealChanges ==
  ASSUME Registered, NEW d, NEW deal, deals' = [deals EXCEPT ![d] = deal],
         signed \subseteq signed', d \in Deals => Bound(d)'
  PROVE  Registered'
<1>1. DOMAIN deals' = Deals
  BY DEF Registered
<1>2. ASSUME NEW e \in Deals, HasDeal(e)' PROVE Bound(e)'
  <2>1. CASE e = d
    BY <1>2, <2>1
  <2>2. CASE e # d
    <3>1. deals'[e] = deals[e] /\ Bound(e)
      BY <1>2, <2>2 DEF Registered, HasDeal
    <3> QED
      BY <3>1 DEF Bound
  <2> QED
    BY <2>1, <2>2
<1> QED
  BY <1>1, <1>2 DEF Registered

(* A deal moves on in its state and nothing else.                          *)
LEMMA Advanced ==
  ASSUME Registered, NEW d, NEW to \in DealState, HasDeal(d),
         deals' = [deals EXCEPT ![d].state = to], UNCHANGED signed,
         to \in PastProposal => deals[d].state \in PastProposal
  PROVE  Registered'
<1> DEFINE deal == [deals[d] EXCEPT !.state = to]
<1>1. deals' = [deals EXCEPT ![d] = deal]
  OBVIOUS
<1>2. ASSUME d \in Deals PROVE Bound(d)'
  <2>1. Bound(d) /\ deals'[d] = deal
    BY <1>2, <1>1 DEF Registered
  <2>2. /\ DOMAIN deal = DOMAIN deals[d] /\ deal.state = to
        /\ deal.creator = deals[d].creator /\ deal.borrower = deals[d].borrower
        /\ deal.lender = deals[d].lender /\ deal.creatorSide = deals[d].creatorSide
        /\ deal.visibility = deals[d].visibility /\ deal.terms = deals[d].terms
    BY <2>1 DEF Bound
  <2> HIDE DEF deal
  <2> QED
    BY <2>1, <2>2 DEF Bound
<1> HIDE DEF deal
<1> QED
  BY <1>1, <1>2, OneDealChanges

LEMMA ProposalBinds ==
  ASSUME Registered, NEW d, NEW by \in Wallets, NEW terms, terms = Terms(terms),
         NEW visibility \in {"Private", "Public"}, NEW side \in {"Borrower", "Lender"},
         NEW counterparty, ProposeDeal(d, by, terms, visibility, side, counterparty)
  PROVE  Registered'
<1> DEFINE deal == [creator |-> by,
                    borrower |-> IF side = "Borrower" THEN by ELSE counterparty,
                    lender |-> IF side = "Lender" THEN by ELSE counterparty,
                    creatorSide |-> side, visibility |-> visibility,
                    terms |-> terms, state |-> "Proposed"]
<1>1. /\ deals' = [deals EXCEPT ![d] = deal]
      /\ signed' = signed \union {<<d, by, terms>>}
      /\ counterparty # by
  BY DEF ProposeDeal
<1>2. ASSUME d \in Deals PROVE Bound(d)'
  <2>1. deals'[d] = deal
    BY <1>1, <1>2 DEF Registered
  <2>2. /\ DOMAIN deal = {"creator", "borrower", "lender", "creatorSide", "visibility",
                          "terms", "state"}
        /\ deal.creator = by /\ deal.creatorSide = side
        /\ deal.borrower = IF side = "Borrower" THEN by ELSE counterparty
        /\ deal.lender = IF side = "Lender" THEN by ELSE counterparty
        /\ deal.visibility = visibility /\ deal.terms = terms
        /\ deal.state = "Proposed"
    OBVIOUS
  <2>3. "Proposed" \in DealState /\ "Proposed" \notin PastProposal
    BY DEF DealState, PastProposal
  <2> HIDE DEF deal
  <2> QED
    BY <1>1, <2>1, <2>2, <2>3 DEF Bound
<1> HIDE DEF deal
<1> QED
  BY <1>1, <1>2, OneDealChanges

LEMMA ConfirmationBinds ==
  ASSUME Registered, NEW d, NEW by \in Wallets, NEW seen, ConfirmDeal(d, by, Terms(seen))
  PROVE  Registered'
<1> DEFINE old == deals[d]
           deal == [WithCounterparty(old, by) EXCEPT !.state = "Confirmed"]
<1>1. /\ InDealState(d, {"Proposed"}) /\ Hash(old.terms) = Hash(Terms(seen))
      /\ by # old.creator /\ Counterparty(old) \in {Default, by}
      /\ deals' = [deals EXCEPT ![d] = deal]
      /\ signed' = signed \union {<<d, by, Terms(seen)>>}
  BY DEF ConfirmDeal
<1>2. ASSUME d \in Deals PROVE Bound(d)'
  <2>1. Bound(d) /\ deals'[d] = deal
    BY <1>1, <1>2 DEF Registered, InDealState
  <2>2. old.terms = Terms(seen)
    BY <1>1, <2>1, SameTerms DEF Bound
  <2>3. /\ DOMAIN deal = DOMAIN old /\ deal.state = "Confirmed"
        /\ deal.creator = old.creator /\ deal.creatorSide = old.creatorSide
        /\ deal.visibility = old.visibility /\ deal.terms = old.terms
        /\ deal.lender = IF old.creatorSide = "Borrower" THEN by ELSE old.lender
        /\ deal.borrower = IF old.creatorSide = "Borrower" THEN old.borrower ELSE by
    BY <2>1 DEF Bound, WithCounterparty
  <2>4. "Confirmed" \in DealState
    BY DEF DealState
  <2>5. /\ DOMAIN old = {"creator", "borrower", "lender", "creatorSide", "visibility",
                         "terms", "state"}
        /\ old.terms = Terms(old.terms) /\ old.creator \in Wallets
        /\ old.creatorSide \in {"Borrower", "Lender"}
        /\ old.visibility \in {"Private", "Public"}
        /\ old.creator = IF old.creatorSide = "Borrower" THEN old.borrower ELSE old.lender
        /\ <<d, old.creator, old.terms>> \in signed
    BY <2>1 DEF Bound
  <2> HIDE DEF deal, old
  <2>6. /\ deal.creator = IF deal.creatorSide = "Borrower" THEN deal.borrower ELSE deal.lender
        /\ deal.borrower # deal.lender /\ Default \notin {deal.borrower, deal.lender}
    BY <1>1, <2>3, <2>5, BaseAssumption
  <2>7. /\ <<d, deal.creator, deal.terms>> \in signed'
        /\ <<d, deal.borrower, deal.terms>> \in signed'
        /\ <<d, deal.lender, deal.terms>> \in signed'
    BY <1>1, <2>2, <2>3, <2>5
  <2> QED
    BY <2>1, <2>3, <2>4, <2>5, <2>6, <2>7 DEF Bound
<1> HIDE DEF deal
<1> QED
  BY <1>1, <1>2, OneDealChanges

(* The other instructions only move a deal on. *)
LEMMA OthersAdvance ==
  ASSUME Registered, NEW d, NEW by, NEW outcome \in CloseOutcome,
         \/ CancelDeal(d, by) \/ BeginFunding(d, by) \/ MarkActive(d, by)
         \/ CloseDeal(d, by, outcome)
  PROVE  Registered'
<1>1. CASE CancelDeal(d, by)
  <2>1. /\ "Cancelled" \in DealState /\ "Cancelled" \notin PastProposal
        /\ deals' = [deals EXCEPT ![d].state = "Cancelled"] /\ UNCHANGED signed
        /\ HasDeal(d)
    BY <1>1 DEF DealState, PastProposal, CancelDeal, InDealState
  <2> QED
    BY <2>1, Advanced
<1>2. CASE BeginFunding(d, by)
  <2>1. /\ "Funding" \in DealState /\ deals[d].state \in PastProposal
        /\ deals' = [deals EXCEPT ![d].state = "Funding"] /\ UNCHANGED signed
        /\ HasDeal(d)
    BY <1>2 DEF DealState, PastProposal, BeginFunding, Advance, InDealState
  <2> QED
    BY <2>1, Advanced
<1>3. CASE MarkActive(d, by)
  <2>1. /\ "Active" \in DealState /\ deals[d].state \in PastProposal
        /\ deals' = [deals EXCEPT ![d].state = "Active"] /\ UNCHANGED signed
        /\ HasDeal(d)
    BY <1>3 DEF DealState, PastProposal, MarkActive, Advance, InDealState
  <2> QED
    BY <2>1, Advanced
<1>4. CASE CloseDeal(d, by, outcome)
  <2>1. /\ outcome \in DealState /\ deals[d].state \in PastProposal
        /\ deals' = [deals EXCEPT ![d].state = outcome] /\ UNCHANGED signed
        /\ HasDeal(d)
    BY <1>4 DEF DealState, PastProposal, CloseOutcome, CloseDeal, Closable, Advance
  <2> QED
    BY <2>1, Advanced
<1> QED
  BY <1>1, <1>2, <1>3, <1>4

(* What a handler reads of an enumerated argument is one of its names.     *)
LEMMA OnlyNames ==
  /\ \A v : Named("visibility", v) => v \in {"Private", "Public"}
  /\ \A v : Named("creatorSide", v) => v \in {"Borrower", "Lender"}
  /\ \A v : Named("outcome", v) => v \in CloseOutcome
<1>1. /\ ClientEnums["visibility"] = <<"Private", "Public">>
      /\ ClientEnums["creatorSide"] = <<"Borrower", "Lender">>
      /\ ClientEnums["outcome"] = <<"Completed", "PartiallyLiquidated", "FullyLiquidated">>
  BY DEF ClientEnums
<1>2. \A v : Named("visibility", v) => v \in {"Private", "Public"}
  BY <1>1 DEF Named
<1>3. \A v : Named("creatorSide", v) => v \in {"Borrower", "Lender"}
  BY <1>1 DEF Named
<1>4. \A v : Named("outcome", v) => v \in CloseOutcome
  BY <1>1 DEF Named, CloseOutcome
<1> QED
  BY <1>2, <1>3, <1>4

LEMMA NamesReceived ==
  ASSUME NEW message, Written(message)
  PROVE  /\ message.name = "proposeDeal" =>
              /\ Received(message).visibility \in {"Private", "Public"}
              /\ Received(message).creatorSide \in {"Borrower", "Lender"}
         /\ message.name = "closeDeal" => Received(message).outcome \in CloseOutcome
<1> DEFINE data == Builders[message.name].data
           sent == Sent(data, message.input)
<1>1. Sound(Marked(message.name), data, sent)
  BY DEF Written
<1>2. \A i \in DOMAIN data : Received(message)[data[i][1]] = sent[data[i][1]]
  BY ReceivedSent
<1>3. ASSUME message.name = "proposeDeal"
      PROVE  /\ Received(message).visibility \in {"Private", "Public"}
             /\ Received(message).creatorSide \in {"Borrower", "Lender"}
  <2>1. /\ 9 \in DOMAIN data /\ data[9][1] = "visibility"
        /\ 10 \in DOMAIN data /\ data[10][1] = "creatorSide"
    BY <1>3, ProposalIndex DEF Byte
  <2>2. Marked(message.name) = {"visibility", "creatorSide"}
    BY <1>3 DEF Marked
  <2> HIDE DEF data, sent
  <2>3. /\ Named("visibility", sent["visibility"]) /\ Named("creatorSide", sent["creatorSide"])
    BY <1>1, <2>1, <2>2, EnumNames DEF Sound
  <2>4. /\ Received(message)["visibility"] = sent["visibility"]
        /\ Received(message)["creatorSide"] = sent["creatorSide"]
    BY <1>2, <2>1
  <2> QED
    BY <2>3, <2>4, OnlyNames
<1>4. ASSUME message.name = "closeDeal"
      PROVE  Received(message).outcome \in CloseOutcome
  <2>1. 1 \in DOMAIN data /\ data[1][1] = "outcome"
    BY <1>4, OneArgument DEF Byte
  <2>2. Marked(message.name) = {"outcome"}
    BY <1>4 DEF Marked
  <2> HIDE DEF data, sent
  <2>3. Named("outcome", sent["outcome"])
    BY <1>1, <2>1, <2>2, EnumNames DEF Sound
  <2>4. Received(message)["outcome"] = sent["outcome"]
    BY <1>2, <2>1
  <2> QED
    BY <2>3, <2>4, OnlyNames
<1> QED
  BY <1>3, <1>4

LEMMA ArriveBinds ==
  ASSUME WireInv, Arrive
  PROVE  Registered'
<1> DEFINE name == flight.name
           d == flight.input.dealId
           by == flight.by
           args == Received(flight)
<1>1. Registered /\ Written(flight) /\ by \in Wallets
  BY DEF WireInv, Arrive, Written
<1>2. Effect(name, d, by, args) \/ UNCHANGED dealVars
  BY DEF Arrive, Received
<1>3. CASE UNCHANGED dealVars
  BY <1>1, <1>3 DEF dealVars, Registered, Bound, HasDeal
<1>4. CASE Effect(name, d, by, args)
  <2> HIDE DEF d, by, args
  <2>1. CASE /\ name = "proposeDeal"
             /\ ProposeDeal(args.dealId, by, Terms(args), args.visibility, args.creatorSide,
                            args.counterparty)
    <3>1. args.visibility \in {"Private", "Public"} /\ args.creatorSide \in {"Borrower", "Lender"}
      BY <1>1, <2>1, NamesReceived DEF args
    <3>2. Terms(args) = Terms(Terms(args))
      BY DEF Terms
    <3> QED
      BY <1>1, <2>1, <3>1, <3>2, ProposalBinds
  <2>2. CASE ConfirmDeal(d, by, Terms(flight.input.seen))
    BY <1>1, <2>2, ConfirmationBinds
  <2>3. CASE CancelDeal(d, by) \/ BeginFunding(d, by) \/ MarkActive(d, by)
    <3>1. "Completed" \in CloseOutcome
      BY DEF CloseOutcome
    <3> QED
      BY <1>1, <2>3, <3>1, OthersAdvance
  <2>4. CASE name = "closeDeal" /\ CloseDeal(d, by, args.outcome)
    <3>1. args.outcome \in CloseOutcome
      BY <1>1, <2>4, NamesReceived DEF args
    <3> QED
      BY <1>1, <2>4, <3>1, OthersAdvance
  <2> QED
    BY <1>4, <2>1, <2>2, <2>3, <2>4 DEF Effect
<1> QED
  BY <1>2, <1>3, <1>4

(***************************************************************************)
(* The invariant and what it shows.                                        *)
(***************************************************************************)
LEMMA WireInitially == WireInit => WireInv
BY DEF WireInit, DealInit, WireInv, Registered, HasDeal, ArgumentsArrive, ShownIsStored

LEMMA WireKept == WireInv /\ [WireNext]_wireVars => WireInv'
<1> SUFFICES ASSUME WireInv, [WireNext]_wireVars PROVE WireInv'
  OBVIOUS
<1>1. ASSUME NEW o \in Operators, InitializeRegistry(o, o, o), UNCHANGED messageVars
      PROVE  WireInv'
  BY <1>1 DEF InitializeRegistry, messageVars, WireInv, Registered, Bound, HasDeal, Written,
              ArgumentsArrive, ShownIsStored
<1>2. ASSUME NEW w \in Wallets, PressPropose(w) PROVE WireInv'
  BY <1>2, ProposeWrites
<1>3. ASSUME NEW w \in Wallets, PressConfirm(w) PROVE WireInv'
  BY <1>3, ConfirmWrites
<1>4. ASSUME NEW w \in Wallets, Press(w) PROVE WireInv'
  BY <1>4, PressWrites
<1>5. CASE Arrive
  <2>1. flight' = Empty /\ UNCHANGED screen
    BY <1>5 DEF Arrive
  <2>2. ShownIsStored'
    BY <2>1 DEF WireInv, ShownIsStored
  <2> QED
    BY <1>5, <2>1, <2>2, ArriveReceives, ArriveBinds DEF WireInv
<1>6. CASE Open
  BY <1>6, OpenShows
<1>7. CASE UNCHANGED wireVars
  BY <1>7 DEF wireVars, dealVars, messageVars, WireInv, Registered, Bound, HasDeal, Written,
              ArgumentsArrive, ShownIsStored
<1> QED
  BY <1>1, <1>2, <1>3, <1>4, <1>5, <1>6, <1>7 DEF WireNext

LEMMA WireInvariant == WireSpec => []WireInv
BY WireInitially, WireKept, PTL DEF WireSpec

(* Whatever a page passes to a builder is what the handler of the program  *)
(* reads under that name, and every account is in its place.               *)
THEOREM ArgumentsAlwaysArrive == WireSpec => []ArgumentsArrive
<1>1. WireInv => ArgumentsArrive
  BY DEF WireInv
<1> QED
  BY <1>1, WireInvariant, PTL

(* A page shows every account as the program stored it.                    *)
THEOREM ShownAsStored == WireSpec => []ShownIsStored
<1>1. WireInv => ShownIsStored
  BY DEF WireInv
<1> QED
  BY <1>1, WireInvariant, PTL

(* Consent from screen to screen: a deal past its proposal binds two       *)
(* wallets, and each signed for the terms the program stores: the creator  *)
(* as the program read them out of the form's bytes, the other as its page *)
(* decoded them and hashed them.                                           *)
THEOREM ConsentOverTheWire == WireSpec => []MutualConsent
<1>1. WireInv => MutualConsent
  BY DEF WireInv, Registered, Bound, MutualConsent, InDealState, IsFullyBound
<1> QED
  BY <1>1, WireInvariant, PTL
=============================================================================
