----------------------------- MODULE MCLayouts ------------------------------
(* TLC instance of the page layouts: either a level of index pages runs, or
   the layouts of a table or of a key are looked at. *)
EXTENDS IndexPage, TableLayouts

\* sizeof(u16) and SlotValHeaderInter<page_id>.
Sizes  == [leaf |-> 2, inter |-> 8]
Aligns == [leaf |-> 2, inter |-> 4]

\* Seven keys of four prefixes, as long as a VARCHAR of three or seven bytes,
\* its end and the tuple id; and four of them that are equally long.
SevenKeys == {7, 8, 9, 13, 14, 18, 22}
FourKeys  == {8, 14, 18, 22}
Lengths == [k \in SevenKeys |-> 12 + 4 * (k % 2)]

LayoutsInit == PageInit /\ TablesInit

LayoutsNext ==
  \/ /\ TablesInit
     /\ PageNext
     /\ UNCHANGED tableVars
  \/ /\ pages = <<InitPage>>
     /\ TablesNext
     /\ UNCHANGED pageVars

LayoutsSpec == LayoutsInit /\ [][LayoutsNext]_<<pageVars, tableVars>>
=============================================================================
