---- MODULE MCRelay ----
EXTENDS Relay
A(op, s) == [op |-> op, space |-> s]
Two(a, b, leavers, ends) == [send |-> <<a, b>>, leavers |-> leavers, ends |-> ends]

Talk == <<A("subscribe", "s1"), A("publish", "s1"), A("publish", "s1")>>
Listen == <<A("join", "s1"), A("subscribe", "s1")>>

\* The first client moves an entity between two spaces that the second watches.
Move == <<A("subscribe", "s1"), A("subscribe", "s2"), A("transition", "s2")>>
Watch == <<A("join", "s1"), A("subscribe", "s1"), A("subscribe", "s2"), A("leave", "s1")>>

MCPlans == {Two(Talk, Append(Listen, A("unsubscribe", "s1")), {2}, {}),
            Two(Move, Watch, {2}, {}),
            Two(<<A("subscribe", "s1"), A("publish", "s1")>>, Listen, {}, {"delete"})}

\* A client that is too slow for what it publishes itself, and two that meet
\* while a peer leaves, the session is deleted or the worker stops.
MCLivePlans == {Two(Talk, <<>>, {1}, {}),
                Two(<<A("subscribe", "s1"), A("publish", "s1")>>, Listen, {2}, {}),
                Two(<<A("subscribe", "s1")>>, Listen, {2}, {"stop"}),
                Two(<<A("subscribe", "s1")>>, Listen, {}, {"delete"})}
====
