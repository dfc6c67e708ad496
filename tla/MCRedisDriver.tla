---------------------------- MODULE MCRedisDriver ----------------------------
(* Instances of RedisDriver for TLC. *)
EXTENDS RedisDriver

Error  == <<Line("error", 0, 2), CrLf>>
Length == <<Line("integer", 2, 2), CrLf>>
Null   == <<Line("bulk", -1, 2), CrLf>>
Empty  == <<Line("bulk", 0, 3), CrLf, CrLf>>
Long   == <<Line("bulk", 2, 5), CrLf, Data, Data, CrLf>>
Array(n, elements) == <<Line("array", n, Len(elements) + 2), CrLf>> \o elements

NoElements  == Array(0, <<>>)
TwoElements == Array(2, Array(2, Empty \o Length) \o Null)

SomeReplies == {Error, Length, Long, NoElements, TwoElements}

\* What is proved of replies of the protocol is about these.
ASSUME ProtocolAssumption == RepliesWellFormed
=============================================================================
