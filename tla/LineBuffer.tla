----------------------------- MODULE LineBuffer -----------------------------
(***************************************************************************)
(* What the other modules take for granted of the feed's text: the line    *)
(* buffer of ReplayMarketDataFile, the views ParseMarketDataLine makes     *)
(* into it (SplitCsvLine, character by character), and the FixedSymbol     *)
(* that copies one of them into an order before the buffer is overwritten. *)
(* A view is an offset into the buffer and a length.                       *)
(***************************************************************************)
EXTENDS Naturals, FiniteSets, SequencesExt

CONSTANTS
  Char, Comma, CR,
  kExpectedFieldCount,
  kMaxLength,            \* FixedSymbol::kMaxLength
  MaxText,               \* bound on the length of a line
  MaxOrders              \* bound on the orders

ASSUME LineBufferAssumption ==
  /\ Comma \in Char /\ CR \in Char /\ Comma # CR
  /\ {kExpectedFieldCount, kMaxLength} \subseteq Nat \ {0}
  /\ {MaxText, MaxOrders} \subseteq Nat

VARIABLES
  pc,          \* "read", "split", "fields", "callback" or "done"
  buffer,      \* the std::string that std::getline fills
  size,        \* of the view of it without its carriage return
  start,       \* SplitCsvLine's
  fields,      \* the views made so far
  status,      \* of the line, once it is known to be bad
  orders       \* the orders generated, each with the symbol it is meant to
               \* have: that of its line when it was generated

vars == <<pc, buffer, size, start, fields, status, orders>>

Text(view) == SubSeq(buffer, view.offset + 1, view.offset + view.length)

Line == Text([offset |-> 0, length |-> size])

Init ==
  /\ pc = "read"
  /\ buffer = <<>> /\ size = 0 /\ start = 0
  /\ fields = <<>>
  /\ status = "kOk"
  /\ orders = <<>>

StrippedSize(text) ==
  IF text # <<>> /\ Last(text) = CR THEN Len(text) - 1 ELSE Len(text)

\* Mutant: an order's symbol is a view of the buffer.
ReadLineUnderOrders(text) ==
  /\ pc = "read" /\ Len(orders) < MaxOrders
  /\ buffer' = text
  /\ size' = StrippedSize(text)
  /\ start' = 0 /\ fields' = <<>>
  /\ IF size' = 0 THEN status' = "kEmptyInput" /\ pc' = "done"
                  ELSE status' = "kOk" /\ pc' = "split"
  /\ orders' = [i \in DOMAIN orders |->
                  [orders[i] EXCEPT !.symbol.data =
                     [k \in DOMAIN @ |-> IF k \in DOMAIN text THEN text[k]
                                         ELSE @[k]]]]

\* std::getline overwrites the buffer; an empty line ends the replay.
ReadLine(text) ==
  /\ pc = "read" /\ Len(orders) < MaxOrders
  /\ buffer' = text
  /\ size' = StrippedSize(text)
  /\ start' = 0 /\ fields' = <<>>
  /\ IF size' = 0 THEN status' = "kEmptyInput" /\ pc' = "done"
                  ELSE status' = "kOk" /\ pc' = "split"
  /\ UNCHANGED orders

\* The buffer is destroyed; the orders are drained after this.
EndOfFile ==
  /\ pc = "read"
  /\ pc' = "done"
  /\ buffer' = <<>> /\ size' = 0 /\ start' = 0 /\ fields' = <<>>
  /\ UNCHANGED <<status, orders>>

----------------------------------------------------------------------------
(* SplitCsvLine *)

\* line.find(',', start)
Commas == {k \in start..(size - 1) : buffer[k + 1] = Comma}

\* Mutant: the comma is not skipped.
SplitFieldKeepsComma ==
  /\ pc = "split" /\ Len(fields) < kExpectedFieldCount
  /\ Commas # {}
  /\ fields' = Append(fields, [offset |-> start,
                               length |-> Min(Commas) - start])
  /\ start' = Min(Commas)
  /\ UNCHANGED <<pc, buffer, size, status, orders>>

SplitField ==
  /\ pc = "split" /\ Len(fields) < kExpectedFieldCount
  /\ Commas # {}
  /\ fields' = Append(fields, [offset |-> start,
                               length |-> Min(Commas) - start])
  /\ start' = Min(Commas) + 1
  /\ UNCHANGED <<pc, buffer, size, status, orders>>

SplitLastField ==
  /\ pc = "split" /\ Len(fields) < kExpectedFieldCount
  /\ Commas = {}
  /\ fields' = Append(fields, [offset |-> start, length |-> size - start])
  /\ pc' = "fields"
  /\ UNCHANGED <<buffer, size, start, status, orders>>

Fail(reason) ==
  /\ status' = reason
  /\ pc' = "done"
  /\ UNCHANGED <<buffer, size, start, fields, orders>>

SplitTooMany ==
  /\ pc = "split" /\ Len(fields) >= kExpectedFieldCount
  /\ Fail("kWrongFieldCount")

----------------------------------------------------------------------------
(* The rest of ParseMarketDataLine, and the callback *)

WrongFields == Len(fields) # kExpectedFieldCount \/ fields[1].length = 0

AllFieldsHaveText == ~WrongFields /\ \A k \in DOMAIN fields : fields[k].length > 0

\* What the numbers are is left open, but none of them is an empty text.
CheckFields ==
  /\ pc = "fields"
  /\ \/ WrongFields /\ Fail("kWrongFieldCount")
     \/ ~WrongFields /\ Fail("kInvalidNumber")
     \/ AllFieldsHaveText /\ Fail("kInvalidMarket")
     \/ /\ AllFieldsHaveText
        /\ pc' = "callback"
        /\ UNCHANGED <<buffer, size, start, fields, status, orders>>

\* FixedSymbol::Assign: the characters are copied into a zeroed array.
Assign(text) ==
  [data |-> [k \in 1..kMaxLength |-> IF k \in DOMAIN text THEN text[k] ELSE 0],
   length |-> Len(text)]

\* FixedSymbol::view.
View(symbol) == SubSeq(symbol.data, 1, symbol.length)

\* The strategy generates an order, if it likes the prices and the symbol
\* fits.
Callback ==
  /\ pc = "callback"
  /\ \/ UNCHANGED orders
     \/ /\ fields[1].length <= kMaxLength
        /\ orders' = Append(orders, [symbol |-> Assign(Text(fields[1])),
                                     meant |-> Text(fields[1])])
  /\ pc' = "read"
  /\ UNCHANGED <<buffer, size, start, fields, status>>

Next ==
  \/ \E text \in BoundedSeq(Char, MaxText) : ReadLine(text)
  \/ EndOfFile
  \/ SplitField \/ SplitLastField \/ SplitTooMany
  \/ CheckFields \/ Callback

Spec == Init /\ [][Next]_vars

----------------------------------------------------------------------------
(* Properties *)

Texts == [k \in DOMAIN fields |-> Text(fields[k])]

CommasIn(text) == Cardinality({k \in DOMAIN text : text[k] = Comma})

Join(texts) ==
  FoldLeft(LAMBDA joined, text : joined \o <<Comma>> \o text,
           texts[1], Tail(texts))

\* The split is what the other modules take a line to be: the views, inside
\* the line and free of commas, are the whole line again when they are
\* joined with commas.  A line fails for its shape exactly if it is empty,
\* has another number of commas, or has no symbol, in this order.
SplitIsFaithful ==
  /\ pc \in {"fields", "callback"} =>
       /\ \A k \in DOMAIN fields : /\ fields[k].offset + fields[k].length <= size
                                   /\ CommasIn(Texts[k]) = 0
       /\ Join(Texts) = Line
  /\ pc = "callback" \/ status \in {"kInvalidNumber", "kInvalidMarket"} =>
       CommasIn(Line) + 1 = kExpectedFieldCount /\ Line[1] # Comma
  /\ status = "kEmptyInput" => Line = <<>>
  /\ status = "kWrongFieldCount" =>
       Line # <<>> /\ (\/ CommasIn(Line) + 1 # kExpectedFieldCount
                       \/ Line[1] = Comma)

\* "Queued OrderRequest values therefore do not depend on the lifetime of the
\* source feed line" (docs/architecture.md): while later lines overwrite the
\* buffer, and after it is gone, every order has the symbol of its own line.
OrdersOwnTheirSymbols ==
  \A i \in DOMAIN orders : View(orders[i].symbol) = orders[i].meant

============================================================================
