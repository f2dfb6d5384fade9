---------------------------- MODULE MCLiveFiles ----------------------------
(* Instances of LiveFiles for TLC: a page with two cards, one of them in a *)
(* hero, a component whose tag takes two lines, with another one of its    *)
(* class in it, and a build of the page.  The text of one card is short.   *)
EXTENDS LiveFiles

Tags == [hero |-> "div", card1 |-> "div", card2 |-> "div", panel |-> "section", inner |-> "section"]
Classes == [hero |-> "hero", card1 |-> "card", card2 |-> "card", panel |-> "panel", inner |-> "panel"]

L(kind, e, in) == Line(kind, e, None, 0, in)
Card(e, in) == <<L("open", e, in), L("text", e, in + 1), L("close", e, in)>>
PageLines ==
  <<L("policy", None, 1), L("open", "hero", 1)>> \o Card("card1", 2)
    \o <<L("close", "hero", 1)>> \o Card("card2", 1) \o <<L("anchor", None, 1)>>
ComponentLines ==
  <<L("open", "panel", 2), L("attribute", "panel", 3), L("text", "panel", 3)>>
    \o Card("inner", 3) \o <<L("close", "panel", 2)>>
Before ==
  [page |-> PageLines, component |-> ComponentLines, output |-> <<>>]
Symmetry == Permutations(Sessions) \cup Permutations(Ports)
=============================================================================
