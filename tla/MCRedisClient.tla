--------------------------- MODULE MCRedisClient ---------------------------
(* The replies of the worker's commands, and what else tries the reader: strings with a *)
(* CRLF in them, empty ones, nested and empty aggregates, both forms of nil.            *)
EXTENDS RedisClient

At(p, t, v) == [place |-> p, type |-> t, value |-> v]
Root(t, v) == <<At(<<>>, t, v)>>

MCTurnedAway == Root("error", <<101>>)
MCReplies ==
    { Root("integer", <<10>>),
      Root("integer", <<-1>>),
      Root("string", <<97, 13, 10, 98>>),
      Root("nil array", <<>>),
      Root("array", <<0>>),
      Root("array", <<2>>) \o <<At(<<0>>, "string", <<>>), At(<<1>>, "string", <<36, 49>>)>>,
      Root("array", <<2>>) \o <<At(<<0>>, "array", <<1>>), At(<<0, 0>>, "nil string", <<>>),
                                 At(<<1>>, "integer", <<0>>)>>,
      MCTurnedAway }

\* "?", ":01", "$-2", "*x" and an array whose second element is none.
Bad(good, letter, line) == [good |-> good, letter |-> letter, line |-> line]
MCMalformed ==
    { Bad(<<>>, 63, <<>>), Bad(<<>>, 58, <<48, 49>>), Bad(<<>>, 36, <<45, 50>>), Bad(<<>>, 42, <<120>>),
      Bad(Root("array", <<2>>) \o <<At(<<0>>, "integer", <<1>>)>>, 43, <<97, 13, 98>>) }
=============================================================================
