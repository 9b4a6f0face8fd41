--------------------------------- MODULE Resp ---------------------------------
(***************************************************************************)
(* The RESP codec (internal/resp): EncodeCommand, the generic ReadReply    *)
(* that reads the replies of a pipeline, and ReadFixedBulkArray, the fast  *)
(* path that reads an array of encoded points into one buffer.             *)
(*                                                                         *)
(* One connection carries items: a status, error or integer line, a bulk,  *)
(* a null, or the header of an array, whose members are the items behind   *)
(* it.  The peer sends item after item, the bytes arrive one by one, and   *)
(* the reader reads item after item: the recursion of readArray is the     *)
(* number of items a call has left to read, to which a header adds its     *)
(* members.                                                                *)
(*                                                                         *)
(* The read of an item is a chain of smaller reads, each of which gets a   *)
(* value and the position behind it, or fails; "short" stands for a read   *)
(* that waits for bytes that have not arrived.                             *)
(***************************************************************************)
EXTENDS Integers, FiniteSetsExt, SequencesExt

CONSTANTS
  Size,    \* model.EncodedLen: the length of every member of the fast path (65)
  Streams  \* what the reader is called for: the function, how often, and the items sent

VARIABLES
  stream,   \* the stream of this run
  wire,     \* the bytes the peer has sent
  sent,     \* for each item sent, where it ends, the replies sent with it, and the items
            \* its reply still lacks
  arrived,  \* bytes that have arrived
  cut,      \* the connection is cut: no more will be sent or arrive
  pos,      \* the position of the next byte to read
  got,      \* the values of the items read
  left,     \* items the call has still to read, 0 when the next read begins a call
  calls,    \* calls that returned a value
  failure   \* the failure of the last call: "none", "eof", "redis" or "protocol"

vars == <<stream, wire, sent, arrived, cut, pos, got, left, calls, failure>>

-----------------------------------------------------------------------------
(* Bytes and items.                                                        *)

Byte == 0..255
LF == 10
CR == 13
Plus == 43
Dash == 45
Digit == 48..57

\* The first byte of an item tells its type; nil is not one.
OfStatus  == Plus
OfError   == Dash
OfInteger == 58
OfBulk    == 36
OfArray   == 42

Item(type, n, bytes) == [type |-> type, n |-> n, bytes |-> bytes]
Status(text)  == Item(OfStatus, 0, text)
Refusal(text) == Item(OfError, 0, text)
Integer(n)    == Item(OfInteger, n, << >>)
Bulk(bytes)   == Item(OfBulk, Len(bytes), bytes)
ArrayOf(n)    == Item(OfArray, n, << >>)
NullOf(type)  == Item(type, -1, << >>)
Nil           == Item(0, -1, << >>)

\* The items a peer sends: a line holds no LF, whatever a bulk may hold.
Items ==
  {v \in [type : {OfStatus, OfError, OfInteger, OfBulk, OfArray}, n : Int, bytes : Seq(Byte)] :
     \/ v.type \in {OfStatus, OfError} /\ v.n = 0 /\ LF \notin Range(v.bytes)
     \/ v.type = OfInteger /\ v.bytes = << >>
     \/ v.type = OfBulk /\ v.n = Len(v.bytes)
     \/ v.type = OfArray /\ v.n >= 0 /\ v.bytes = << >>
     \/ v.type \in {OfBulk, OfArray} /\ v.n = -1 /\ v.bytes = << >>}

ASSUME SizeAssumption == Size \in Nat \ {0}
ASSUME StreamsAssumption ==
  Streams \subseteq
    [reader : {"ReadReply", "ReadFixedBulkArray"}, calls : Nat, items : Seq(Items)]

\* strconv.AppendInt.
Decimal[n \in Nat] ==
  IF n < 10 THEN <<48 + n>> ELSE Append(Decimal[n \div 10], 48 + (n % 10))
Numeral(n) == IF n < 0 THEN <<Dash>> \o Decimal[-n] ELSE Decimal[n]

Terminated(type, text) == <<type>> \o text \o <<CR, LF>>
BulkBytes(bytes) == Terminated(OfBulk, Numeral(Len(bytes))) \o bytes \o <<CR, LF>>

Encoded(v) ==
  CASE v.type = OfBulk /\ v.n >= 0      -> BulkBytes(v.bytes)
    [] v.type \in {OfStatus, OfError}   -> Terminated(v.type, v.bytes)
    [] OTHER                            -> Terminated(v.type, Numeral(v.n))

\* EncodeCommand: an array of bulk strings.
EncodeCommand(args) == <<ArrayOf(Len(args))>> \o [k \in DOMAIN args |-> Bulk(args[k])]

-----------------------------------------------------------------------------
(* Reads.                                                                  *)

Got(value, next) == [failure |-> "none", value |-> value, next |-> next]
Fails(why) == [failure |-> why]
Then(read, Continue(_, _)) ==
  IF read.failure = "none" THEN Continue(read.value, read.next) ELSE read

\* ReadFull and Discard.  Mutant: Read, which returns with what is there.
SomeBytesAt(p, n) ==
  IF p > arrived THEN Fails("short") ELSE Got(SubSeq(wire, p, p + n - 1), p + n)
BytesAt(p, n) ==
  IF p + n - 1 > arrived THEN Fails("short") ELSE Got(SubSeq(wire, p, p + n - 1), p + n)

ByteAt(p) == IF p > arrived THEN Fails("short") ELSE Got(wire[p], p + 1)

\* readLine: up to the first LF, which must follow a CR.
ReadLine(p) ==
  LET ends == {i \in p..arrived : wire[i] = LF}
      end  == Min(ends)
  IN IF ends = {} THEN Fails("short")
     ELSE IF end = p \/ wire[end - 1] # CR THEN Fails("protocol")
     ELSE Got(SubSeq(wire, p, end - 2), end + 1)

\* The number that digits stand for, digit by digit.
Number(digits) ==
  LET n[i \in 0..Len(digits)] == IF i = 0 THEN 0 ELSE 10 * n[i - 1] + (digits[i] - 48)
  IN n[Len(digits)]

\* strconv.ParseInt of a line.
ParseInt(line, next) ==
  LET signed == line # << >> /\ Head(line) \in {Plus, Dash}
      digits == IF signed THEN Tail(line) ELSE line
  IN IF digits = << >> \/ ~(Range(digits) \subseteq Digit) THEN Fails("protocol")
     ELSE Got(IF signed /\ Head(line) = Dash THEN -Number(digits) ELSE Number(digits), next)

\* parseIntLine: the same off the wire, for an optional "-" and digits up to CR LF.
\* Mutant: no sign.
NoMinus(p) == FALSE
Minus(p) == p <= arrived /\ wire[p] = Dash

ParseIntLine(p) ==
  LET first  == IF Minus(p) THEN p + 1 ELSE p
      end    == Min({i \in first..arrived : wire[i] \notin Digit} \cup {arrived + 1})
      digits == SubSeq(wire, first, end - 1)
  IN IF end > arrived THEN Fails("short")
     ELSE IF wire[end] # CR THEN Fails("protocol")
     ELSE Then(ByteAt(end + 1), LAMBDA c, next :
            IF c # LF \/ digits = << >> THEN Fails("protocol")
            ELSE Got(IF Minus(p) THEN -Number(digits) ELSE Number(digits), next))

\* A bulk is read with its CR LF.  Mutant: without.
BulkLengthBare(n) == n
BulkLength(n) == n + 2

\* A length of -1 is nil.  Mutant: it is taken as it is.
NeverNil(n) == FALSE
IsNil(n) == n < 0

ReadBulk(line, next) ==
  Then(ParseInt(line, next), LAMBDA n, p :
    IF IsNil(n) THEN Got(Nil, p)
    ELSE Then(BytesAt(p, BulkLength(n)), LAMBDA buf, q : Got(Bulk(SubSeq(buf, 1, n)), q)))

\* The header: the loop of readArray reads its members.
ReadArray(line, next) ==
  Then(ParseInt(line, next), LAMBDA n, p : Got(IF n < 0 THEN Nil ELSE ArrayOf(n), p))

ReadReply(p) ==
  Then(ByteAt(p), LAMBDA type, q : Then(ReadLine(q), LAMBDA line, next :
    CASE type = OfStatus  -> Got(Status(line), next)
      [] type = OfError   -> Fails("redis")
      [] type = OfInteger -> Then(ParseInt(line, next), LAMBDA n, r : Got(Integer(n), r))
      [] type = OfBulk    -> ReadBulk(line, next)
      [] type = OfArray   -> ReadArray(line, next)
      [] OTHER            -> Fails("protocol")))

\* ReadFixedBulkArray up to its loop; a null array is an empty one.
ReadFixedHeader(p) ==
  Then(ByteAt(p), LAMBDA type, q :
    CASE type = OfError -> Then(ReadLine(q), LAMBDA line, next : Fails("redis"))
      [] type = OfArray ->
           Then(ParseIntLine(q), LAMBDA n, next : Got(ArrayOf(IF n < 0 THEN 0 ELSE n), next))
      [] OTHER          -> Fails("protocol"))

\* One turn of its loop, which fills the next Size bytes of the buffer.
ReadFixedMember(p) ==
  Then(ByteAt(p), LAMBDA bp, q : IF bp # OfBulk THEN Fails("protocol")
    ELSE Then(ParseIntLine(q), LAMBDA ln, r : IF ln # Size THEN Fails("protocol")
    ELSE Then(BytesAt(r, Size), LAMBDA member, s :
         Then(BytesAt(s, 2), LAMBDA crlf, t : Got(Bulk(member), t)))))

Fast == stream.reader = "ReadFixedBulkArray"

\* What the reader makes of the next item with the bytes that have arrived.
Read ==
  IF ~Fast THEN ReadReply(pos)
  ELSE IF left = 0 THEN ReadFixedHeader(pos) ELSE ReadFixedMember(pos)

-----------------------------------------------------------------------------
\* What is left of a reply behind its item v: the loop of readArray counts down, and a
\* header adds its members.
After(owed, v) ==
  (IF owed = 0 THEN 0 ELSE owed - 1) + (IF v.type = OfArray /\ v.n > 0 THEN v.n ELSE 0)

\* The account of the first k items.
Mark(k) == IF k = 0 THEN [end |-> 0, replies |-> 0, owed |-> 0] ELSE sent[k]

Init ==
  /\ stream \in Streams
  /\ wire = << >> /\ sent = << >> /\ arrived = 0 /\ cut = FALSE
  /\ pos = 1 /\ got = << >> /\ left = 0 /\ calls = 0 /\ failure = "none"

\* The peer writes its next item.
Send ==
  /\ ~cut /\ arrived = Len(wire) /\ Len(sent) < Len(stream.items)
  /\ LET item == stream.items[Len(sent) + 1]
         mark == Mark(Len(sent))
         owed == After(mark.owed, item)
     IN /\ wire' = wire \o Encoded(item)
        /\ sent' = Append(sent, [end |-> Len(wire'), owed |-> owed,
                                 replies |-> mark.replies + (IF owed = 0 THEN 1 ELSE 0)])
  /\ UNCHANGED <<stream, arrived, cut, pos, got, left, calls, failure>>

Arrive ==
  /\ ~cut /\ arrived < Len(wire)
  /\ arrived' = arrived + 1
  /\ UNCHANGED <<stream, wire, sent, cut, pos, got, left, calls, failure>>

\* The connection breaks or its deadline passes.
Cut ==
  /\ ~cut
  /\ cut' = TRUE
  /\ UNCHANGED <<stream, wire, sent, arrived, pos, got, left, calls, failure>>

\* roundtrip calls once per command and stops at the first error.
Reading == failure = "none" /\ calls < stream.calls

\* An item is read; with the last one of its reply the call returns.
Reads ==
  /\ Reading /\ Read.failure = "none"
  /\ got' = Append(got, Read.value)
  /\ pos' = Read.next
  /\ left' = After(left, Read.value)
  /\ calls' = calls + (IF left' = 0 THEN 1 ELSE 0)
  /\ UNCHANGED <<stream, wire, sent, arrived, cut, failure>>

\* The call returns an error; roundtrip and readPoints give the connection up.
ReturnsError ==
  /\ Reading /\ Read.failure \notin {"none", "short"}
  /\ failure' = Read.failure
  /\ UNCHANGED <<stream, wire, sent, arrived, cut, pos, got, left, calls>>

\* The bytes it waits for do not come.
ReturnsEOF ==
  /\ Reading /\ Read.failure = "short" /\ cut
  /\ failure' = "eof"
  /\ UNCHANGED <<stream, wire, sent, arrived, cut, pos, got, left, calls>>

Quiescent == cut /\ ~Reading /\ UNCHANGED vars

Next == Send \/ Arrive \/ Cut \/ Reads \/ ReturnsError \/ ReturnsEOF \/ Quiescent

Spec == Init /\ [][Next]_vars

-----------------------------------------------------------------------------
\* What the reader should make of an item: both nulls are nil, and the fast path takes no
\* array for an empty one.
Value(v) ==
  IF v.type \notin {OfBulk, OfArray} \/ v.n >= 0 THEN v
  ELSE IF Fast THEN ArrayOf(0) ELSE Nil

\* An item that is not what the fast path is for.
Misfit(v) ==
  IF left = 0 THEN v.type \notin {OfArray, OfError} ELSE v.type # OfBulk \/ v.n # Size

\* The reader gets the items that were sent, whatever bytes their bulks hold, and stands at
\* the first byte of the next one: no part of an item that was cut off, or has not arrived,
\* passes for a value.  Its calls end where the replies of the peer end: the condition for
\* pooling the connection.
InSync ==
  /\ Len(got) <= Len(sent)
  /\ \A k \in DOMAIN got : got[k] = Value(stream.items[k])
  /\ LET mark == Mark(Len(got))
     IN pos = mark.end + 1 /\ pos <= arrived + 1 /\ calls = mark.replies /\ left = mark.owed

\* A call never waits when the reply it reads has arrived: it wants no byte behind the
\* reply, which a peer that has answered everything will not send.
NeverStarved ==
  Reading /\ (\E k \in DOMAIN sent : sent[k].replies > calls /\ sent[k].end <= arrived)
    => Read.failure # "short"

\* A call fails for what the peer or the network did: an error reply, a cut in the middle
\* of an item or before it, or on the fast path an item that it is not for.  It takes no
\* other item for a failure.
FailuresAreReal ==
  failure # "none" =>
    LET k == Len(got) + 1
        v == stream.items[k]
        complete == k <= Len(sent) /\ sent[k].end <= arrived
    IN \/ failure = "redis" /\ complete /\ v.type = OfError
       \/ failure = "eof" /\ cut /\ ~complete
       \/ failure = "protocol" /\ Fast /\ k <= Len(sent) /\ Misfit(v)
=============================================================================
