------------------------------- MODULE MCResp -------------------------------
(* Resp for TLC: members of ten bytes, so that lengths have two digits, among  *)
(* them bytes that look like the protocol's own.                              *)
EXTENDS Resp

X == 120
Filled(n, c) == [i \in 1..n |-> c]

MCMembers ==
  {Filled(10, X), Filled(10, LF), <<OfBulk, 49, 48, CR, LF>> \o Filled(5, X),
   [i \in 1..10 |-> IF i % 2 = 0 THEN LF ELSE CR],
   [i \in 1..10 |-> IF i % 2 = 0 THEN CR ELSE LF]}

SeqUpTo(S, lo, hi) == UNION {[1..n -> S] : n \in lo..hi}

\* Replies are sequences of items.
Reply(S) == {<<v>> : v \in S}
Array(members) == <<ArrayOf(Len(members))>> \o FlattenSeq(members)

Calls(f, replies) == [reader |-> f, calls |-> Len(replies), items |-> FlattenSeq(replies)]

Lines == Reply({Status(<<80, X>>), Refusal(<<69, CR>>), Integer(0), Integer(-7), Integer(120)})
Strings == Reply({Bulk(b) : b \in SeqUpTo({X, CR, LF}, 0, 2)})
Scalars == Reply({NullOf(OfBulk), NullOf(OfArray), Integer(12)}) \cup Strings

Pipelines ==
  {<<v>> : v \in Lines \cup Scalars}
  \cup {<<v, w>> : v \in Lines, w \in Lines}
  \cup {<<Array(of)>> : of \in SeqUpTo(Scalars, 0, 2)}
  \cup {<<Array(<<Array(of), v>>)>> :
           of \in SeqUpTo(Reply({Integer(1), Bulk(<<LF>>)}), 0, 2), v \in Scalars}

Fits == Reply({Bulk(m) : m \in MCMembers})
Misfits == Reply({NullOf(OfBulk), Integer(10), Bulk(Filled(9, X)), Bulk(Filled(11, X))})

Arrays ==
  Reply({Refusal(<<69>>), NullOf(OfArray), Status(<<80>>)})
  \cup {Array(of) : of \in SeqUpTo(Fits, 0, 2)}
  \cup {Array(<<m>>) : m \in Misfits}
  \cup {Array(<<<<Bulk(Filled(10, X))>>, m>>) : m \in Misfits}

Args == SeqUpTo({X, LF}, 1, 2)

Commands ==
  {<<args>> : args \in SeqUpTo(Args, 1, 2) \cup {<<<<X>>, m>> : m \in MCMembers}}
  \cup {<<<<<<X>>, a>>, <<b>>>> : a \in Args, b \in Args}

\* The replies of a pipeline; the reply to a read; the commands of a pipeline, as a
\* server of the same codec reads them.
MCStreams ==
  {Calls("ReadReply", p) : p \in Pipelines}
  \cup {Calls("ReadFixedBulkArray", <<v>>) : v \in Arrays}
  \cup {Calls("ReadReply", [k \in DOMAIN c |-> EncodeCommand(c[k])]) : c \in Commands}
=============================================================================
