-------------------------- MODULE LineBufferProofs --------------------------
(***************************************************************************)
(* Proofs about the line buffer, for every alphabet, length of a line and  *)
(* number of fields: the views SplitCsvLine makes stay inside the line, so *)
(* the symbol copied from one of them is whole, and it is the order's own; *)
(* and joined with commas they are the line again.                         *)
(***************************************************************************)
EXTENDS LineBuffer, SequenceTheorems, FiniteSetTheorems, WellFoundedInduction,
        TLAPS

FieldView == [offset : Nat, length : Nat]

FixedSymbol == [data : [1..kMaxLength -> Char \cup {0}],
                length : 0..kMaxLength]

\* The types, with the bounds that keep every view inside the line.
ViewsAreInside ==
  /\ buffer \in Seq(Char)
  /\ size \in Nat /\ size <= Len(buffer)
  /\ start \in Nat /\ start <= size
  /\ fields \in Seq(FieldView)
  /\ \A k \in 1..Len(fields) : fields[k].offset + fields[k].length <= size
  /\ pc = "callback" => Len(fields) = kExpectedFieldCount
  /\ orders \in Seq([symbol : FixedSymbol, meant : Seq(Char)])

\* Some element of a set of naturals is the least.
LEMMA MinIsLeast ==
  ASSUME NEW S \in SUBSET Nat, S # {}
  PROVE  Min(S) \in S /\ \A x \in S : Min(S) <= x
<1>1. \E x \in S : \A y \in S : <<y, x>> \notin OpToRel(<, Nat)
  BY NatLessThanWellFounded, WFMin
<1>2. PICK x \in S : \A y \in S : <<y, x>> \notin OpToRel(<, Nat)
  BY <1>1
<1>3. \A y \in S : x <= y
  <2>1. ASSUME NEW y \in S, y < x
        PROVE  <<y, x>> \in OpToRel(<, Nat)
    <3>1. <<y, x>> \in Nat \X Nat /\ <<y, x>>[1] < <<y, x>>[2]
      BY <2>1
    <3> QED BY <3>1 DEF OpToRel
  <2>2. \A y \in S : ~(y < x)
    BY <1>2, <2>1, Zenon
  <2> QED BY <2>2
<1> QED BY <1>3 DEF Min

\* The text of a view inside the buffer is as long as the view.
LEMMA TextOfView ==
  ASSUME NEW view \in FieldView, buffer \in Seq(Char),
         view.offset + view.length <= Len(buffer)
  PROVE  Text(view) \in Seq(Char) /\ Len(Text(view)) = view.length
<1> DEFINE a == view.offset + 1
           b == view.offset + view.length
<1>1. a \in Int /\ b \in Int /\ \A i \in a..b : buffer[i] \in Char
  BY DEF FieldView
<1>2. /\ SubSeq(buffer, a, b) \in Seq(Char)
      /\ Len(SubSeq(buffer, a, b)) = IF a <= b THEN b - a + 1 ELSE 0
  <2> HIDE DEF a, b
  <2> QED BY <1>1, SubSeqProperties
<1>3. (IF a <= b THEN b - a + 1 ELSE 0) = view.length
  BY DEF FieldView
<1> QED BY <1>2, <1>3 DEF Text

\* And it has the characters of the view.
LEMMA TextIs ==
  ASSUME NEW view \in FieldView, buffer \in Seq(Char),
         view.offset + view.length <= Len(buffer)
  PROVE  /\ Text(view) \in Seq(Char) /\ Len(Text(view)) = view.length
         /\ \A i \in 1..view.length : Text(view)[i] = buffer[view.offset + i]
<1> DEFINE a == view.offset + 1
           b == view.offset + view.length
<1>1. a \in Int /\ b \in Int /\ \A i \in a..b : buffer[i] \in Char
  BY DEF FieldView
<1>2. \A i \in 1..(b - a + 1) : SubSeq(buffer, a, b)[i] = buffer[a + i - 1]
  <2> HIDE DEF a, b
  <2> QED BY <1>1, SubSeqProperties
<1>3. /\ b - a + 1 = view.length
      /\ \A i \in 1..view.length : a + i - 1 = view.offset + i
  BY DEF FieldView
<1> HIDE DEF a, b
<1>4. Text(view) = SubSeq(buffer, a, b)
  BY DEF Text, a, b
<1> QED BY <1>2, <1>3, <1>4, TextOfView

\* FixedSymbol keeps a text that fits, and gives it back.
LEMMA AssignKeepsText ==
  ASSUME NEW text \in Seq(Char), Len(text) <= kMaxLength
  PROVE  Assign(text) \in FixedSymbol /\ View(Assign(text)) = text
<1> DEFINE data == [k \in 1..kMaxLength |-> IF k \in DOMAIN text THEN text[k]
                                                                 ELSE 0]
           n == Len(text)
<1>0. /\ kMaxLength \in Nat /\ n \in 0..kMaxLength /\ DOMAIN text = 1..n
      /\ \A k \in 1..n : text[k] \in Char
  BY LineBufferAssumption
<1>1. data \in [1..kMaxLength -> Char \cup {0}]
  BY <1>0
<1>2. Assign(text) = [data |-> data, length |-> n]
  BY DEF Assign
<1>3. \A k \in 1..n : data[k] = text[k] /\ data[k] \in Char
  BY <1>0
<1> HIDE DEF data
<1>4. View(Assign(text)) = SubSeq(data, 1, n)
  BY <1>2 DEF View
<1>5. /\ SubSeq(data, 1, n) \in Seq(Char)
      /\ Len(SubSeq(data, 1, n)) = IF 1 <= n THEN n - 1 + 1 ELSE 0
      /\ \A i \in 1..(n - 1 + 1) : SubSeq(data, 1, n)[i] = data[1 + i - 1]
  BY <1>0, <1>3, SubSeqProperties
<1> DEFINE q == SubSeq(data, 1, n)
<1>6. q \in Seq(Char) /\ Len(q) = n /\ \A i \in 1..n : q[i] = text[i]
  <2> HIDE DEF n, q
  <2>1. n - 1 + 1 = n /\ (IF 1 <= n THEN n - 1 + 1 ELSE 0) = n
        /\ \A i \in 1..n : 1 + i - 1 = i
    BY <1>0
  <2> QED BY <1>3, <1>5, <2>1 DEF q
<1>7. q = text
  <2> HIDE DEF q
  <2> QED BY <1>6
<1> QED BY <1>0, <1>1, <1>2, <1>4, <1>7 DEF FixedSymbol

\* Every step keeps the views inside the line.
LEMMA ViewsStep == ViewsAreInside /\ [Next]_vars => ViewsAreInside'
<1> SUFFICES ASSUME ViewsAreInside, [Next]_vars
             PROVE  ViewsAreInside'
  OBVIOUS
<1> USE DEF ViewsAreInside
<1>1. ASSUME NEW text \in BoundedSeq(Char, MaxText), ReadLine(text)
      PROVE  ViewsAreInside'
  <2>1. text \in Seq(Char)
    <3>1. PICK m \in 0..MaxText : text \in [1..m -> Char]
      BY DEF BoundedSeq, SeqOf
    <3>2. m \in Nat
      BY <3>1, LineBufferAssumption
    <3> QED BY <3>1, <3>2
  <2>2. StrippedSize(text) \in Nat /\ StrippedSize(text) <= Len(text)
    BY <2>1, EmptySeq DEF StrippedSize
  <2> QED BY <1>1, <2>1, <2>2 DEF ReadLine
<1>2. CASE EndOfFile
  BY <1>2 DEF EndOfFile
<1>3. CASE SplitField
  <2>1. /\ Commas \in SUBSET Nat /\ Commas # {}
        /\ Commas \subseteq start..(size - 1)
    BY <1>3 DEF SplitField, Commas
  <2> DEFINE c == Min(Commas)
             view == [offset |-> start, length |-> c - start]
  <2>2. c \in start..(size - 1)
    BY <2>1, MinIsLeast
  <2> HIDE DEF c
  <2>3. /\ view \in FieldView /\ view.offset + view.length <= size
        /\ c + 1 \in Nat /\ c + 1 <= size
    BY <2>2 DEF FieldView
  <2>4. /\ fields' = Append(fields, view) /\ start' = c + 1
        /\ UNCHANGED <<pc, buffer, size, status, orders>> /\ pc = "split"
    BY <1>3 DEF SplitField, c
  <2> HIDE DEF view
  <2> QED BY <2>3, <2>4
<1>4. CASE SplitLastField
  <2> DEFINE view == [offset |-> start, length |-> size - start]
  <2>1. view \in FieldView /\ view.offset + view.length <= size
    BY DEF FieldView
  <2>2. /\ fields' = Append(fields, view) /\ pc' = "fields"
        /\ UNCHANGED <<buffer, size, start, status, orders>>
    BY <1>4 DEF SplitLastField
  <2> HIDE DEF view
  <2> QED BY <2>1, <2>2
<1>5. CASE SplitTooMany
  BY <1>5 DEF SplitTooMany, Fail
<1>6. CASE CheckFields
  BY <1>6 DEF CheckFields, Fail, AllFieldsHaveText, WrongFields
<1>7. CASE Callback
  <2>1. /\ UNCHANGED <<buffer, size, start, fields, status>> /\ pc' = "read"
        /\ pc = "callback"
    BY <1>7 DEF Callback
  <2>2. CASE UNCHANGED orders
    BY <2>1, <2>2
  <2>3. CASE orders' # orders
    <3> DEFINE text == Text(fields[1])
    <3>1. /\ fields[1].length <= kMaxLength
          /\ orders' = Append(orders, [symbol |-> Assign(text), meant |-> text])
      BY <1>7, <2>3 DEF Callback
    <3>2. 1 \in 1..Len(fields)
      BY <2>1, LineBufferAssumption
    <3>3. fields[1] \in FieldView /\ fields[1].offset + fields[1].length <= size
      BY <3>2
    <3>4. fields[1].offset + fields[1].length <= Len(buffer)
      BY <3>3 DEF FieldView
    <3>5. text \in Seq(Char) /\ Len(text) <= kMaxLength
      BY <3>1, <3>3, <3>4, TextOfView
    <3> HIDE DEF text
    <3>6. Assign(text) \in FixedSymbol
      BY <3>5, AssignKeepsText
    <3> QED BY <2>1, <3>1, <3>5, <3>6
  <2> QED BY <2>2, <2>3
<1>8. CASE UNCHANGED vars
  BY <1>8 DEF vars
<1> QED BY <1>1, <1>2, <1>3, <1>4, <1>5, <1>6, <1>7, <1>8 DEF Next

\* While later lines overwrite the buffer, and after it is gone, every order
\* has the symbol of the line it was generated from.
THEOREM SymbolsAreOwned == Spec => []OrdersOwnTheirSymbols
<1> DEFINE Inv == ViewsAreInside /\ OrdersOwnTheirSymbols
<1>1. Init => Inv
  BY DEF Init, ViewsAreInside, OrdersOwnTheirSymbols
<1>2. Inv /\ [Next]_vars => Inv'
  <2> SUFFICES ASSUME ViewsAreInside, OrdersOwnTheirSymbols, [Next]_vars,
                      orders' # orders
               PROVE  OrdersOwnTheirSymbols'
    BY ViewsStep DEF OrdersOwnTheirSymbols
  <2> DEFINE text == Text(fields[1])
             order == [symbol |-> Assign(text), meant |-> text]
  <2>1. /\ pc = "callback" /\ fields[1].length <= kMaxLength
        /\ orders' = Append(orders, order)
    BY DEF Next, ReadLine, EndOfFile, SplitField, SplitLastField,
           SplitTooMany, Fail, CheckFields, Callback, vars
  <2>2. 1 \in 1..Len(fields)
    BY <2>1, LineBufferAssumption DEF ViewsAreInside
  <2>3. /\ fields[1] \in FieldView
        /\ fields[1].offset + fields[1].length <= Len(buffer)
    <3>1. /\ fields[1] \in FieldView
          /\ fields[1].offset + fields[1].length <= size
          /\ size \in Nat /\ size <= Len(buffer) /\ Len(buffer) \in Nat
      BY <2>2 DEF ViewsAreInside
    <3> QED BY <3>1 DEF FieldView
  <2>4. text \in Seq(Char) /\ Len(text) <= kMaxLength
    BY <2>1, <2>3, TextOfView DEF ViewsAreInside
  <2> HIDE DEF text
  <2>5. View(order.symbol) = order.meant
    BY <2>4, AssignKeepsText
  <2>6. /\ orders \in Seq([symbol : FixedSymbol, meant : Seq(Char)])
        /\ \A i \in 1..Len(orders) : View(orders[i].symbol) = orders[i].meant
    BY DEF ViewsAreInside, OrdersOwnTheirSymbols
  <2> HIDE DEF order
  <2>7. /\ DOMAIN orders' = 1..(Len(orders) + 1)
        /\ \A i \in 1..Len(orders) : orders'[i] = orders[i]
        /\ orders'[Len(orders) + 1] = order
    BY <2>1, <2>6
  <2> QED BY <2>5, <2>6, <2>7 DEF OrdersOwnTheirSymbols, View
<1> QED BY <1>1, <1>2, PTL DEF Spec

----------------------------------------------------------------------------
(* Joining is a fold. *)

JoinWith(joined, text) == joined \o <<Comma>> \o text

Joining == INSTANCE FoldLemmas WITH op <- JoinWith

LEMMA JoinIsFold ==
  \A texts : Join(texts) = Joining!LeftFold(texts[1], Tail(texts))
  BY DEF Join, FoldLeft, MapThenFoldSet, Max, JoinWith, Joining!LeftFold,
         Joining!IsFold, Joining!IsFoldOver, Joining!Latest

LEMMA JoinOfNext == Join(Texts)' = Join(Texts')
  BY DEF Join, FoldLeft, MapThenFoldSet, Max

LEMMA JoinOfOne == \A text : Join(Append(<<>>, text)) = text
<1> TAKE text
<1>1. <<>> \in Seq({text}) /\ text \in {text}
  BY EmptySeq
<1>2. Append(<<>>, text)[1] = text /\ Tail(Append(<<>>, text)) = <<>>
  BY <1>1, HeadTailAppend
<1> QED BY <1>2, JoinIsFold, Joining!FoldEmpty

LEMMA JoinOfOneMore ==
  ASSUME NEW T, NEW texts \in Seq(T), texts # <<>>, NEW text \in T
  PROVE  Join(Append(texts, text)) = Join(texts) \o <<Comma>> \o text
<1>1. /\ Append(texts, text)[1] = texts[1]
      /\ Tail(Append(texts, text)) = Append(Tail(texts), text)
      /\ Tail(texts) \in Seq(T)
  <2>1. Len(texts) \in Nat \ {0}
    BY EmptySeq
  <2> QED BY <2>1, HeadTailAppend, HeadTailProperties, AppendProperties
<1>2. Joining!LeftFold(texts[1], Append(Tail(texts), text)) =
        JoinWith(Joining!LeftFold(texts[1], Tail(texts)), text)
  <2> DEFINE first == texts[1]
             rest == Tail(texts)
  <2> SUFFICES Joining!LeftFold(first, Append(rest, text)) =
                 JoinWith(Joining!LeftFold(first, rest), text)
    OBVIOUS
  <2>1. rest \in Seq(T)
    BY <1>1
  <2> HIDE DEF first, rest
  <2> QED BY <2>1, Joining!FoldAppend
<1> QED BY <1>1, <1>2, JoinIsFold DEF JoinWith

----------------------------------------------------------------------------
(* The split of a line. *)

\* The commas among the first n characters.
CommasUpTo(n) == {k \in 1..n : buffer[k] = Comma}

\* The views are free of commas, and the first is at the start of the line.
\* It is empty only if the line starts with a comma.
ViewsHaveNoComma ==
  /\ size # 0
  /\ \A k \in 1..Len(fields) :
       \A j \in (fields[k].offset + 1)..(fields[k].offset + fields[k].length) :
         buffer[j] # Comma
  /\ fields # <<>> => /\ fields[1].offset = 0
                      /\ fields[1].length = 0 => buffer[1] = Comma

\* Each view so far ended at a comma, and start is after the last of them.
SplitUpToStart ==
  /\ ViewsHaveNoComma
  /\ Cardinality(CommasUpTo(start)) = Len(fields)
  /\ IF fields = <<>> THEN start = 0
     ELSE /\ start # 0 /\ buffer[start] = Comma
          /\ Join(Texts) = SubSeq(buffer, 1, start - 1)

\* The last view ended with the line.
SplitWhole ==
  /\ ViewsHaveNoComma /\ fields # <<>>
  /\ Cardinality(CommasUpTo(size)) + 1 = Len(fields)
  /\ Join(Texts) = Line

SplitInv ==
  /\ pc # "done" => status = "kOk"
  /\ pc = "split" => SplitUpToStart
  /\ \/ pc \in {"fields", "callback"}
     \/ status \in {"kInvalidNumber", "kInvalidMarket"}
     => SplitWhole
  /\ pc = "callback" \/ status \in {"kInvalidNumber", "kInvalidMarket"}
       => ~WrongFields
  /\ status = "kEmptyInput" => size = 0
  /\ status = "kWrongFieldCount" =>
       /\ size # 0
       /\ \/ Cardinality(CommasUpTo(size)) + 1 # kExpectedFieldCount
          \/ buffer[1] = Comma

\* The texts of the views, with the text of one more.
LEMMA OneMoreText ==
  ASSUME ViewsAreInside, NEW view \in FieldView,
         view.offset + view.length <= size,
         fields' = Append(fields, view), UNCHANGED buffer
  PROVE  /\ Texts \in Seq(Seq(Char)) /\ Text(view) \in Seq(Char)
         /\ Texts' = Append(Texts, Text(view))
         /\ Texts = <<>> <=> fields = <<>>
<1> DEFINE n == Len(fields)
<1>1. /\ n \in Nat /\ DOMAIN fields = 1..n /\ fields \in Seq(FieldView)
      /\ size \in Nat /\ size <= Len(buffer) /\ buffer \in Seq(Char)
      /\ Len(buffer) \in Nat
  BY DEF ViewsAreInside
<1>2. ASSUME NEW v \in FieldView, v.offset + v.length <= size
      PROVE  Text(v) \in Seq(Char)
  <2>1. v.offset + v.length <= Len(buffer)
    BY <1>1, <1>2 DEF FieldView
  <2> QED BY <1>1, <2>1, TextOfView
<1>3. \A k \in 1..n : Text(fields[k]) \in Seq(Char)
  BY <1>1, <1>2 DEF ViewsAreInside
<1>4. Texts = [k \in 1..n |-> Text(fields[k])]
  BY <1>1 DEF Texts
<1>5. Texts \in Seq(Seq(Char)) /\ Len(Texts) = n /\ DOMAIN Texts = 1..n
  BY <1>1, <1>3, <1>4
<1>6. /\ DOMAIN fields' = 1..(n + 1) /\ fields'[n + 1] = view
      /\ \A k \in 1..n : fields'[k] = fields[k]
  BY <1>1
<1>7. Texts' = [k \in 1..(n + 1) |-> Text(fields'[k])]
  BY <1>6 DEF Texts, Text
<1>8. Text(view) \in Seq(Char)
  BY <1>2
<1> DEFINE more == Append(Texts, Text(view))
<1>9. /\ DOMAIN more = 1..(n + 1) /\ more[n + 1] = Text(view)
      /\ \A k \in 1..n : more[k] = Texts[k]
      /\ more = [k \in 1..(n + 1) |-> more[k]]
  <2>1. /\ more \in Seq(Seq(Char)) /\ Len(more) = n + 1
        /\ more[n + 1] = Text(view) /\ \A k \in 1..n : more[k] = Texts[k]
    BY <1>5, <1>8, AppendProperties
  <2> HIDE DEF more, n
  <2> QED BY <2>1, LenProperties
<1>10. \A k \in 1..(n + 1) : more[k] = Text(fields'[k])
  <2> TAKE k \in 1..(n + 1)
  <2> HIDE DEF more
  <2>1. CASE k \in 1..n
    <3>1. Texts[k] = Text(fields[k])
      BY <1>4, <2>1
    <3> QED BY <1>6, <1>9, <2>1, <3>1
  <2>2. CASE k = n + 1
    BY <1>6, <1>9, <2>2
  <2> QED BY <1>1, <2>1, <2>2
<1>11. Texts' = more
  <2> HIDE DEF more, n
  <2> QED BY <1>7, <1>9, <1>10
<1>12. Texts = <<>> <=> fields = <<>>
  BY <1>1, <1>5, EmptySeq
<1> QED BY <1>5, <1>8, <1>11, <1>12

\* A view from start to before the next comma, or to the end of the line.
LEMMA OneMoreView ==
  ASSUME ViewsAreInside, SplitUpToStart, NEW end \in Nat,
         start <= end, end <= size,
         \A j \in (start + 1)..end : buffer[j] # Comma,
         end = 0 => buffer[1] = Comma,
         fields' = Append(fields, [offset |-> start, length |-> end - start]),
         UNCHANGED <<buffer, size>>
  PROVE  /\ ViewsHaveNoComma' /\ fields' # <<>>
         /\ Len(fields') = Len(fields) + 1
         /\ Join(Texts)' = SubSeq(buffer, 1, end)
         /\ Cardinality(CommasUpTo(end)) = Len(fields)
<1> DEFINE view == [offset |-> start, length |-> end - start]
           n == Len(fields)
<1>0. /\ view \in FieldView /\ view.offset + view.length = end
      /\ view.offset = start /\ view.length = end - start
      /\ size \in Nat /\ start \in Nat /\ size <= Len(buffer)
      /\ buffer \in Seq(Char) /\ Len(buffer) \in Nat
  BY DEF ViewsAreInside, FieldView
<1>1. /\ n \in Nat /\ fields \in Seq(FieldView)
      /\ Len(fields') = n + 1 /\ fields'[n + 1] = view
      /\ \A k \in 1..n : fields'[k] = fields[k]
      /\ fields' # <<>>
      /\ fields = <<>> <=> n = 0
  <2>1. fields \in Seq(FieldView)
    BY DEF ViewsAreInside
  <2>2. fields' = Append(fields, view)
    OBVIOUS
  <2> HIDE DEF view
  <2>3. /\ n \in Nat /\ Len(fields') = n + 1 /\ fields'[n + 1] = view
        /\ \A k \in 1..n : fields'[k] = fields[k]
        /\ fields' # <<>>
    BY <1>0, <2>1, <2>2, AppendProperties
  <2> QED BY <2>1, <2>3, EmptySeq
<1> HIDE DEF view
<1>2. /\ Texts \in Seq(Seq(Char)) /\ Text(view) \in Seq(Char)
      /\ Texts' = Append(Texts, Text(view))
      /\ Texts = <<>> <=> fields = <<>>
  BY <1>0, OneMoreText DEF view
<1>3. Text(view) = SubSeq(buffer, start + 1, end)
  BY <1>0 DEF Text
<1>4. Join(Texts)' = SubSeq(buffer, 1, end)
  <2>1. CASE fields = <<>>
    <3>1. start = 0 /\ Texts' = Append(<<>>, Text(view))
      BY <1>2, <2>1 DEF SplitUpToStart
    <3>2. Join(Texts') = Text(view)
      <4>1. Join(Append(<<>>, Text(view))) = Text(view)
        BY <1>2, JoinOfOne
      <4> QED BY <3>1, <4>1
    <3> QED BY <1>3, <3>1, <3>2, JoinOfNext
  <2>2. CASE fields # <<>>
    <3>1. /\ start # 0 /\ buffer[start] = Comma
          /\ Join(Texts) = SubSeq(buffer, 1, start - 1)
      BY <2>2 DEF SplitUpToStart
    <3>2. Join(Texts') = Join(Texts) \o <<Comma>> \o Text(view)
      BY <1>2, <2>2, JoinOfOneMore
    <3>3. SubSeq(buffer, 1, start - 1) \o <<Comma>> = SubSeq(buffer, 1, start)
      <4>1. 1 \in 1..Len(buffer) /\ start \in 1..Len(buffer)
        BY <1>0, <3>1
      <4> QED BY <1>0, <3>1, <4>1, SubSeqRecursiveSecond
    <3>4. SubSeq(buffer, 1, start) \o SubSeq(buffer, start + 1, end) =
            SubSeq(buffer, 1, end)
      <4>1. /\ 1 \in 1..(Len(buffer) + 1) /\ start \in (1 - 1)..Len(buffer)
            /\ end \in start..Len(buffer)
        BY <1>0
      <4> QED BY <1>0, <4>1, ConcatAdjacentSubSeq
    <3> QED BY <1>3, <3>1, <3>2, <3>3, <3>4, JoinOfNext
  <2> QED BY <2>1, <2>2
<1>5. Cardinality(CommasUpTo(end)) = n
  <2>1. CommasUpTo(end) = CommasUpTo(start)
    BY <1>0 DEF CommasUpTo
  <2> QED BY <2>1 DEF SplitUpToStart
<1>6. ViewsHaveNoComma'
  <2>1. \A k \in 1..n :
          \A j \in (fields[k].offset + 1)..
                     (fields[k].offset + fields[k].length) : buffer[j] # Comma
    BY DEF SplitUpToStart, ViewsHaveNoComma
  <2>2. \A j \in (view.offset + 1)..(view.offset + view.length) :
          buffer[j] # Comma
    BY <1>0
  <2>3. ASSUME NEW k \in 1..(n + 1)
        PROVE  \A j \in (fields'[k].offset + 1)..
                          (fields'[k].offset + fields'[k].length) :
                 buffer[j] # Comma
    <3>1. CASE k \in 1..n
      BY <1>1, <2>1, <3>1
    <3>2. CASE k = n + 1
      BY <1>1, <2>2, <3>2
    <3> QED BY <1>1, <3>1, <3>2
  <2>4. /\ fields'[1].offset = 0
        /\ fields'[1].length = 0 => buffer[1] = Comma
    <3>1. CASE n = 0
      <4>1. fields'[1] = view /\ start = 0
        BY <1>1, <3>1 DEF SplitUpToStart
      <4> QED BY <1>0, <4>1
    <3>2. CASE n # 0
      <4>1. fields'[1] = fields[1]
        BY <1>1, <3>2
      <4> QED BY <1>1, <3>2, <4>1 DEF SplitUpToStart, ViewsHaveNoComma
    <3> QED BY <3>1, <3>2
  <2>5. size # 0
    BY DEF SplitUpToStart, ViewsHaveNoComma
  <2> QED BY <1>1, <2>3, <2>4, <2>5 DEF ViewsHaveNoComma
<1> QED BY <1>1, <1>4, <1>5, <1>6

\* The commas that SplitCsvLine finds.
LEMMA FirstComma ==
  ASSUME ViewsAreInside
  PROVE  IF Commas = {} THEN \A j \in (start + 1)..size : buffer[j] # Comma
         ELSE /\ Min(Commas) \in start..(size - 1)
              /\ buffer[Min(Commas) + 1] = Comma
              /\ \A j \in (start + 1)..Min(Commas) : buffer[j] # Comma
<1>1. size \in Nat /\ start \in Nat
  BY DEF ViewsAreInside
<1>2. ASSUME NEW j \in (start + 1)..size, buffer[j] = Comma
      PROVE  j - 1 \in Commas
  <2>1. j - 1 \in start..(size - 1) /\ j - 1 + 1 = j
    BY <1>1
  <2> QED BY <1>2, <2>1 DEF Commas
<1>3. CASE Commas = {}
  BY <1>2, <1>3
<1>4. CASE Commas # {}
  <2>1. Commas \in SUBSET Nat
    BY <1>1 DEF Commas
  <2>2. Min(Commas) \in Commas /\ \A c \in Commas : Min(Commas) <= c
    BY <1>4, <2>1, MinIsLeast
  <2>3. Min(Commas) \in start..(size - 1) /\ buffer[Min(Commas) + 1] = Comma
    BY <2>2 DEF Commas
  <2>4. ASSUME NEW j \in (start + 1)..Min(Commas), buffer[j] = Comma
        PROVE  FALSE
    <3>1. j \in (start + 1)..size
      BY <1>1, <2>3
    <3>2. j - 1 \in Commas
      BY <1>2, <2>4, <3>1
    <3>3. Min(Commas) <= j - 1
      BY <2>2, <3>2
    <3> QED BY <1>1, <2>3, <3>3
  <2> QED BY <1>4, <2>3, <2>4
<1> QED BY <1>3, <1>4

\* Every step keeps it.
LEMMA SplitStep == ViewsAreInside /\ SplitInv /\ [Next]_vars => SplitInv'
<1> SUFFICES ASSUME ViewsAreInside, SplitInv, [Next]_vars
             PROVE  SplitInv'
  OBVIOUS
<1>0. /\ size \in Nat /\ start \in Nat /\ start <= size /\ size <= Len(buffer)
      /\ Len(buffer) \in Nat /\ kExpectedFieldCount \in Nat \ {0}
      /\ fields \in Seq(FieldView) /\ Len(fields) \in Nat
  BY LineBufferAssumption DEF ViewsAreInside
<1>a. ASSUME UNCHANGED <<buffer, size, start, fields>>
      PROVE  /\ SplitUpToStart' = SplitUpToStart /\ SplitWhole' = SplitWhole
             /\ WrongFields' = WrongFields
             /\ CommasUpTo(size)' = CommasUpTo(size)
  <2>1. /\ Texts' = Texts /\ Line' = Line
        /\ ViewsHaveNoComma' = ViewsHaveNoComma
    BY <1>a DEF Texts, Text, Line, ViewsHaveNoComma
  <2>2. Join(Texts)' = Join(Texts)
    BY <2>1, JoinOfNext
  <2>3. /\ CommasUpTo(size)' = CommasUpTo(size)
        /\ CommasUpTo(start)' = CommasUpTo(start)
    BY <1>a DEF CommasUpTo
  <2>4. SplitUpToStart' = SplitUpToStart
    BY <1>a, <2>1, <2>2, <2>3 DEF SplitUpToStart
  <2>5. SplitWhole' = SplitWhole
    BY <1>a, <2>1, <2>2, <2>3 DEF SplitWhole
  <2> QED BY <1>a, <2>3, <2>4, <2>5 DEF WrongFields
<1>1. ASSUME NEW text \in BoundedSeq(Char, MaxText), ReadLine(text)
      PROVE  SplitInv'
  <2>1. /\ start' = 0 /\ fields' = <<>>
        /\ IF size' = 0 THEN status' = "kEmptyInput" /\ pc' = "done"
                        ELSE status' = "kOk" /\ pc' = "split"
    BY <1>1 DEF ReadLine
  <2>2. Cardinality(CommasUpTo(start))' = 0 /\ Len(fields') = 0
    <3>1. CommasUpTo(start)' = {}
      BY <2>1 DEF CommasUpTo
    <3> QED BY <2>1, <3>1, FS_EmptySet
  <2>3. size' # 0 => SplitUpToStart'
    BY <2>1, <2>2 DEF SplitUpToStart, ViewsHaveNoComma
  <2> QED BY <2>1, <2>3 DEF SplitInv
<1>2. CASE EndOfFile
  <2>1. pc' = "done" /\ status' = status /\ status = "kOk"
    BY <1>2 DEF EndOfFile, SplitInv
  <2> QED BY <2>1 DEF SplitInv
<1>3. CASE SplitField
  <2> DEFINE c == Min(Commas)
  <2>1. /\ pc = "split" /\ pc' = "split" /\ status = "kOk" /\ status' = "kOk"
        /\ SplitUpToStart /\ Commas # {} /\ UNCHANGED <<buffer, size>>
        /\ fields' = Append(fields, [offset |-> start, length |-> c - start])
        /\ start' = c + 1
    BY <1>3 DEF SplitField, SplitInv
  <2>2. /\ c \in start..(size - 1) /\ buffer[c + 1] = Comma
        /\ \A j \in (start + 1)..c : buffer[j] # Comma
    BY <2>1, FirstComma
  <2> HIDE DEF c
  <2>3. c \in Nat /\ start <= c /\ c <= size /\ (c = 0 => buffer[1] = Comma)
    BY <1>0, <2>2
  <2>4. /\ ViewsHaveNoComma' /\ fields' # <<>>
        /\ Len(fields') = Len(fields) + 1
        /\ Join(Texts)' = SubSeq(buffer, 1, c)
        /\ Cardinality(CommasUpTo(c)) = Len(fields)
    BY <2>1, <2>2, <2>3, OneMoreView
  <2>5. /\ CommasUpTo(start)' = CommasUpTo(c) \cup {c + 1}
        /\ c + 1 \notin CommasUpTo(c) /\ IsFiniteSet(CommasUpTo(c))
    <3>1. CommasUpTo(start)' = CommasUpTo(c) \cup {c + 1}
      BY <2>1, <2>2, <2>3 DEF CommasUpTo
    <3>2. c + 1 \notin CommasUpTo(c)
      BY <2>3 DEF CommasUpTo
    <3>3. CommasUpTo(c) \in SUBSET (1..c) /\ IsFiniteSet(1..c)
      BY <2>3, FS_Interval DEF CommasUpTo
    <3> QED BY <3>1, <3>2, <3>3, FS_Subset
  <2>6. Cardinality(CommasUpTo(start))' = Len(fields')
    <3>1. Cardinality(CommasUpTo(c) \cup {c + 1}) = Len(fields) + 1
      BY <2>4, <2>5, FS_AddElement
    <3> QED BY <2>4, <2>5, <3>1
  <2>7. start' # 0 /\ start' - 1 = c /\ buffer'[start'] = Comma
    BY <2>1, <2>2, <2>3
  <2>8. SplitUpToStart'
    BY <2>1, <2>4, <2>6, <2>7 DEF SplitUpToStart
  <2> QED BY <2>1, <2>8 DEF SplitInv
<1>4. CASE SplitLastField
  <2>1. /\ pc = "split" /\ pc' = "fields" /\ status = "kOk" /\ status' = "kOk"
        /\ SplitUpToStart /\ Commas = {} /\ UNCHANGED <<buffer, size>>
        /\ fields' = Append(fields, [offset |-> start, length |-> size - start])
    BY <1>4 DEF SplitLastField, SplitInv
  <2>2. \A j \in (start + 1)..size : buffer[j] # Comma
    BY <2>1, FirstComma
  <2>3. size # 0
    BY <2>1 DEF SplitUpToStart, ViewsHaveNoComma
  <2>4. /\ ViewsHaveNoComma' /\ fields' # <<>>
        /\ Len(fields') = Len(fields) + 1
        /\ Join(Texts)' = SubSeq(buffer, 1, size)
        /\ Cardinality(CommasUpTo(size)) = Len(fields)
    BY <1>0, <2>1, <2>2, <2>3, OneMoreView
  <2>5. CommasUpTo(size)' = CommasUpTo(size) /\ Line' = SubSeq(buffer, 1, size)
    BY <1>0, <2>1 DEF CommasUpTo, Line, Text
  <2>6. SplitWhole'
    BY <2>4, <2>5 DEF SplitWhole
  <2> QED BY <2>1, <2>6 DEF SplitInv
<1>5. CASE SplitTooMany
  <2>1. /\ pc = "split" /\ pc' = "done" /\ status' = "kWrongFieldCount"
        /\ UNCHANGED <<buffer, size, start, fields>>
        /\ Len(fields) >= kExpectedFieldCount /\ SplitUpToStart
    BY <1>5 DEF SplitTooMany, Fail, SplitInv
  <2>2. size # 0 /\ Cardinality(CommasUpTo(start)) = Len(fields)
    BY <2>1 DEF SplitUpToStart, ViewsHaveNoComma
  <2>3. /\ CommasUpTo(start) \in SUBSET CommasUpTo(size)
        /\ IsFiniteSet(CommasUpTo(size))
    <3>1. CommasUpTo(size) \in SUBSET (1..size) /\ IsFiniteSet(1..size)
      BY <1>0, FS_Interval DEF CommasUpTo
    <3> QED BY <1>0, <3>1, FS_Subset DEF CommasUpTo
  <2>4. /\ Cardinality(CommasUpTo(start)) <= Cardinality(CommasUpTo(size))
        /\ Cardinality(CommasUpTo(size)) \in Nat
    BY <2>3, FS_Subset, FS_CardinalityType
  <2>5. Cardinality(CommasUpTo(size)) + 1 # kExpectedFieldCount
    BY <1>0, <2>1, <2>2, <2>4
  <2> QED BY <1>a, <2>1, <2>2, <2>5 DEF SplitInv
<1>6. CASE CheckFields
  <2>1. /\ pc = "fields" /\ SplitWhole
        /\ UNCHANGED <<buffer, size, start, fields>>
    BY <1>6 DEF CheckFields, Fail, SplitInv
  <2>2. CASE WrongFields /\ status' = "kWrongFieldCount" /\ pc' = "done"
    <3>1. /\ size # 0 /\ fields # <<>>
          /\ Cardinality(CommasUpTo(size)) + 1 = Len(fields)
          /\ fields[1].length = 0 => buffer[1] = Comma
      BY <2>1 DEF SplitWhole, ViewsHaveNoComma
    <3>2. \/ Cardinality(CommasUpTo(size)) + 1 # kExpectedFieldCount
          \/ buffer[1] = Comma
      BY <2>2, <3>1 DEF WrongFields
    <3> QED BY <1>a, <2>1, <2>2, <3>1, <3>2 DEF SplitInv
  <2>3. CASE /\ ~WrongFields
             /\ \/ /\ status' \in {"kInvalidNumber", "kInvalidMarket"}
                   /\ pc' = "done"
                \/ status' = "kOk" /\ pc' = "callback"
    <3>1. SplitWhole' /\ ~WrongFields'
      BY <1>a, <2>1, <2>3
    <3> QED BY <2>3, <3>1 DEF SplitInv
  <2>4. status = "kOk"
    BY <2>1 DEF SplitInv
  <2> QED BY <1>6, <2>2, <2>3, <2>4
          DEF CheckFields, Fail, AllFieldsHaveText
<1>7. CASE Callback
  <2>1. /\ pc' = "read" /\ status' = "kOk"
    BY <1>7 DEF Callback, SplitInv
  <2> QED BY <2>1 DEF SplitInv
<1>8. CASE UNCHANGED vars
  <2>1. UNCHANGED <<pc, buffer, size, start, fields, status>>
    BY <1>8 DEF vars
  <2> QED BY <1>a, <2>1 DEF SplitInv
<1> QED BY <1>1, <1>2, <1>3, <1>4, <1>5, <1>6, <1>7, <1>8 DEF Next

\* What SplitInv says of the characters of the buffer, said of the line.
LEMMA LineIs ==
  ASSUME ViewsAreInside
  PROVE  /\ CommasIn(Line) = Cardinality(CommasUpTo(size))
         /\ size # 0 => Line # <<>> /\ Line[1] = buffer[1]
         /\ size = 0 => Line = <<>>
<1>1. /\ size \in Nat /\ size <= Len(buffer) /\ buffer \in Seq(Char)
      /\ Len(buffer) \in Nat
  BY DEF ViewsAreInside
<1>2. Line = SubSeq(buffer, 1, size)
  BY <1>1 DEF Line, Text
<1>3. /\ Line \in Seq(Char) /\ Len(Line) = size
      /\ \A i \in 1..size : Line[i] = buffer[i]
  <2>1. \A i \in 1..size : buffer[i] \in Char
    BY <1>1
  <2>2. /\ SubSeq(buffer, 1, size) \in Seq(Char)
        /\ Len(SubSeq(buffer, 1, size)) = IF 1 <= size THEN size - 1 + 1 ELSE 0
        /\ \A i \in 1..(size - 1 + 1) :
             SubSeq(buffer, 1, size)[i] = buffer[1 + i - 1]
    BY <1>1, <2>1, SubSeqProperties
  <2> HIDE DEF Line
  <2>3. \A i \in 1..size : 1 + i - 1 = i
    BY <1>1
  <2> QED BY <1>1, <1>2, <2>2, <2>3
<1>4. DOMAIN Line = 1..size
  BY <1>3, LenProperties
<1>5. {k \in DOMAIN Line : Line[k] = Comma} = CommasUpTo(size)
  BY <1>3, <1>4 DEF CommasUpTo
<1>6. CommasIn(Line) = Cardinality(CommasUpTo(size))
  BY <1>5 DEF CommasIn
<1>7. /\ size # 0 => Line # <<>> /\ Line[1] = buffer[1]
      /\ size = 0 => Line = <<>>
  <2> HIDE DEF Line
  <2> QED BY <1>1, <1>3, EmptySeq
<1> QED BY <1>6, <1>7

\* The views, inside the line and free of commas, are the line again when
\* they are joined with commas, and a line fails for its shape exactly if it
\* is empty, has another number of commas, or has no symbol, for every
\* alphabet, line and number of fields.
THEOREM SplitsAreFaithful == Spec => []SplitIsFaithful
<1> DEFINE Inv == ViewsAreInside /\ SplitInv
<1>1. Init => Inv
  BY DEF Init, ViewsAreInside, SplitInv
<1>2. Inv /\ [Next]_vars => Inv'
  BY ViewsStep, SplitStep
<1>3. Inv => SplitIsFaithful
  <2> SUFFICES ASSUME ViewsAreInside, SplitInv
               PROVE  SplitIsFaithful
    OBVIOUS
  <2>1. ASSUME pc \in {"fields", "callback"}
        PROVE  /\ \A k \in DOMAIN fields :
                    /\ fields[k].offset + fields[k].length <= size
                    /\ CommasIn(Texts[k]) = 0
               /\ Join(Texts) = Line
    <3>1. SplitWhole /\ ViewsHaveNoComma
      BY <2>1 DEF SplitInv, SplitWhole
    <3>2. ASSUME NEW k \in DOMAIN fields
          PROVE  /\ fields[k].offset + fields[k].length <= size
                 /\ CommasIn(Texts[k]) = 0
      <4> DEFINE v == fields[k]
                 text == Text(v)
      <4>1. /\ k \in 1..Len(fields) /\ v \in FieldView
            /\ v.offset + v.length <= size /\ size <= Len(buffer)
            /\ buffer \in Seq(Char) /\ size \in Nat /\ Len(buffer) \in Nat
            /\ v.offset \in Nat /\ v.length \in Nat
        <5>1. /\ k \in 1..Len(fields) /\ fields \in Seq(FieldView)
              /\ v.offset + v.length <= size /\ size <= Len(buffer)
              /\ buffer \in Seq(Char) /\ size \in Nat /\ Len(buffer) \in Nat
          BY DEF ViewsAreInside
        <5>2. v \in FieldView
          BY <5>1
        <5>3. v.offset \in Nat /\ v.length \in Nat
          BY <5>2 DEF FieldView
        <5> QED BY <5>1, <5>2, <5>3
      <4>2. \A j \in (v.offset + 1)..(v.offset + v.length) : buffer[j] # Comma
        BY <3>1, <4>1 DEF ViewsHaveNoComma
      <4>3. /\ text \in Seq(Char) /\ Len(text) = v.length
            /\ \A i \in 1..v.length : text[i] = buffer[v.offset + i]
        BY <4>1, TextIs
      <4>4. {i \in DOMAIN text : text[i] = Comma} = {}
        <5>1. DOMAIN text = 1..v.length
          BY <4>3, LenProperties
        <5>2. \A i \in 1..v.length :
                v.offset + i \in (v.offset + 1)..(v.offset + v.length)
          BY <4>1
        <5> QED BY <4>2, <4>3, <5>1, <5>2
      <4>5. Texts[k] = text
        BY DEF Texts
      <4> QED BY <4>1, <4>4, <4>5, FS_EmptySet DEF CommasIn
    <3> QED BY <3>1, <3>2 DEF SplitWhole
  <2>2. ASSUME \/ pc = "callback"
               \/ status \in {"kInvalidNumber", "kInvalidMarket"}
        PROVE  CommasIn(Line) + 1 = kExpectedFieldCount /\ Line[1] # Comma
    <3>1. SplitWhole /\ ~WrongFields
      BY <2>2 DEF SplitInv
    <3>2. /\ size # 0 /\ 1 \in 1..Len(fields)
          /\ Cardinality(CommasUpTo(size)) + 1 = kExpectedFieldCount
      <4>1. /\ Len(fields) = kExpectedFieldCount
            /\ kExpectedFieldCount \in Nat \ {0}
        BY <3>1, LineBufferAssumption DEF WrongFields
      <4>2. size # 0 /\ Cardinality(CommasUpTo(size)) + 1 = Len(fields)
        BY <3>1 DEF SplitWhole, ViewsHaveNoComma
      <4>3. 1 \in 1..Len(fields)
        BY <4>1
      <4> QED BY <4>1, <4>2, <4>3
    <3>3. fields[1].offset = 0 /\ fields[1].length \in Nat \ {0}
      <4>1. fields[1].offset = 0 /\ fields[1].length # 0
        BY <3>1 DEF SplitWhole, WrongFields, ViewsHaveNoComma
      <4>2. fields[1] \in FieldView
        BY <3>2 DEF ViewsAreInside
      <4> QED BY <4>1, <4>2 DEF FieldView
    <3>4. buffer[1] # Comma
      <4>1. 1 \in (fields[1].offset + 1)..(fields[1].offset + fields[1].length)
        BY <3>3
      <4> QED BY <3>1, <3>2, <4>1 DEF SplitWhole, ViewsHaveNoComma
    <3> QED BY <3>2, <3>4, LineIs
  <2>3. status = "kEmptyInput" => Line = <<>>
    BY LineIs DEF SplitInv
  <2>4. status = "kWrongFieldCount" =>
          Line # <<>> /\ (\/ CommasIn(Line) + 1 # kExpectedFieldCount
                          \/ Line[1] = Comma)
    BY LineIs DEF SplitInv
  <2> QED BY <2>1, <2>2, <2>3, <2>4 DEF SplitIsFaithful
<1> QED BY <1>1, <1>2, <1>3, PTL DEF Spec

============================================================================
