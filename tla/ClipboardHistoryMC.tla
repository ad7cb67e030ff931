------------------------- MODULE ClipboardHistoryMC -------------------------
(***************************************************************************)
(* Values for the functions and relations of ClipboardHistory.             *)
(***************************************************************************)
EXTENDS ClipboardHistory

CONSTANTS a, b, c, p1, p2, p3, html, plain, secret

\* Copies that have no piece in common, and one that is not saved.
SeparateParts == [i \in Items |-> IF i = a THEN {p1, p2} ELSE {p3}]

\* The second copy is the only piece of the first.
SharedParts == [i \in Items |-> {p1}]

\* The third copy has a type that is ignored.
ItemMimes ==
  [i \in Items |-> CASE i = a -> {html, plain} [] i = b -> {plain} [] i = c -> {plain, secret}]
=============================================================================
