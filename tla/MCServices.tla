------------------------------ MODULE MCServices ------------------------------
(***************************************************************************)
(* A small instance of each of the parts that share nothing.               *)
(***************************************************************************)
EXTENDS Services, TLC

\* Two requests to one origin, to another, to loopback hosts, and what is refused.
U(scheme, origin, path, loopback, clean) ==
  [scheme |-> scheme, origin |-> origin, path |-> path, loopback |-> loopback, clean |-> clean]
MCURLs ==
  {U("https", 1, 1, FALSE, TRUE), U("https", 1, 2, FALSE, TRUE), U("https", 2, 1, FALSE, TRUE),
   U("http", 3, 1, TRUE, TRUE), U("http", 3, 2, TRUE, TRUE), U("http", 4, 1, FALSE, TRUE),
   U("https", 1, 1, FALSE, FALSE), U("other", 5, 1, FALSE, TRUE)}

\* Two leagues, the one whose season may end also known by a numeric id.
MCCanon == ("l1" :> "l1") @@ ("l2" :> "l2") @@ ("i1" :> "l1")

\* Two persons of one name, one of them a two-way player, who has two Yahoo identities.
MCPersonName == ("m1" :> "n1") @@ ("m2" :> "n1")
MCEntityName == ("y1" :> "n1") @@ ("y2" :> "n1")
MCEntityRole == ("y1" :> "P") @@ ("y2" :> "B")
MCPlays == ("m1" :> {"H", "P"}) @@ ("m2" :> {"P"})
LegacyRow(entity, role, source) ==
  [yahoo |-> entity, name |-> "n1", role |-> role, mlbam |-> "m1", source |-> source]
MCLegacy == {<<LegacyRow("y2", "P", "name"), LegacyRow("y1", "P", "jersey+team")>>}

\* One batter whom no name fits and one who is injured.
MCOrders == {<<"b1", "b2", "b3">>, <<"b2", "b4", "b1">>}
==============================================================================
