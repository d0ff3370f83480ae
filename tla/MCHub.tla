------------------------------- MODULE MCHub -------------------------------
(***************************************************************************)
(* Instances of Hub for TLC, with what the KPIs read of its log.  An       *)
(* envelope is named for what it shows; a configuration picks the          *)
(* envelopes it needs.                                                     *)
(***************************************************************************)
EXTENDS HubKpi

Message(from, intent, to, ctx) == [from |-> from, intent |-> intent, to |-> to, ctx |-> ctx]

MCMsg == [e \in Envelope |->
  CASE e = "order"     -> Message("dispatch", <<"order", "new">>, "desk", "c1")
    [] e = "order2"    -> Message("dispatch", <<"order", "new">>, "desk", "c1")
    [] e = "offer"     -> Message("desk", <<"offer", "send">>, "external", "c1")
    [] e = "offer2"    -> Message("desk", <<"offer", "send">>, "external", "c1")
    [] e = "statement" -> Message("desk", <<"statement", "send">>, "external", "c1")
    [] e = "wire"      -> Message("human", <<"payment", "authority">>, "desk", "c1")
    [] e = "letter"    -> Message("human", <<"letter", "authority">>, "external", "c1")
    [] e = "price"     -> Message("human", <<"price", "change">>, "desk", "c2")
    [] e = "question"  -> Message("desk", Clarification, "queue", "c1")
    [] e = "stray"     -> Message("desk", <<"gossip">>, "dispatch", "c1")
    [] e = "misrouted" -> Message("desk", <<"order", "new">>, "human", "c1")]

Row(intent, wild, senders, receivers, audience) ==
  [intent |-> [name |-> intent, wild |-> wild], senders |-> senders,
   receivers |-> receivers, audience |-> audience]

MCRows == <<
  Row(<<"order">>, TRUE, {"dispatch"}, {"desk"}, "missing"),
  Row(<<"offer", "send">>, FALSE, {"desk"}, {"external"}, "missing"),
  Row(<<"statement", "send">>, FALSE, {"desk"}, {"external"}, "principal"),
  Row(<<"payment", "authority">>, FALSE, {"human"}, {"desk"}, "missing"),
  Row(<<"letter", "authority">>, FALSE, {"human"}, {"external"}, "counterparty"),
  Row(<<"price", "change">>, FALSE, {"human"}, {"desk"}, "missing"),
  Row(Clarification, FALSE, {"any"}, {"queue"}, "missing") >>

MCSignedIntents == {<<"price", "change">>}
=============================================================================
