------------------------------ MODULE Catalogue ------------------------------
(***************************************************************************)
(* What is for sale: sahl-core's Catalogue, a product's choices, and the   *)
(* rows of a pasted file.  Names, categories and stations are left out:    *)
(* nothing here depends on them.                                           *)
(***************************************************************************)
EXTENDS Money, SequencesExt, TLC

CatalogueKind == {"ProductAdded", "ProductUpdated", "ProductWithdrawn", "ProductRestored"}

Unit == {"pcs", "kg", "g", "L", "ml", "m", "pack"}
IsDivisible(unit) == unit \notin {"pcs", "pack"}

Products(catalogue) == DOMAIN catalogue

\* A group of choices somebody could satisfy.
ValidGroup(group) ==
    /\ group.options # {}
    /\ group.max > 0
    /\ group.min <= group.max
    /\ group.min <= Cardinality(group.options)

ValidProduct(details) == details.price >= 0

\* Faulty variant: only what is on sale holds on to its barcodes.
BarcodesFreeOnSale(catalogue, id, details) ==
    \A other \in Products(catalogue) \ {id} :
        catalogue[other].active => catalogue[other].barcodes \cap details.barcodes = {}

\* A withdrawn product keeps its barcodes: it may come back.
BarcodesFree(catalogue, id, details) ==
    \A other \in Products(catalogue) \ {id} :
        catalogue[other].barcodes \cap details.barcodes = {}

CatalogueAccepts(catalogue, e) ==
    IF e.kind \in {"ProductAdded", "ProductUpdated"}
    THEN /\ (e.kind = "ProductAdded") # (e.id \in Products(catalogue))
         /\ ValidProduct(e.data)
         /\ BarcodesFree(catalogue, e.id, e.data)
    ELSE e.id \in Products(catalogue)

ProductOf(details, active) ==
    [price |-> details.price, barcodes |-> details.barcodes, active |-> active]

\* An edit leaves a product on or off the sell screen as it was.
CatalogueApply(catalogue, e) ==
    CASE e.kind = "ProductAdded" ->
           [id \in Products(catalogue) \cup {e.id} |->
              IF id = e.id THEN ProductOf(e.data, TRUE) ELSE catalogue[id]]
      [] e.kind = "ProductUpdated" ->
           [catalogue EXCEPT ![e.id] = ProductOf(e.data, catalogue[e.id].active)]
      [] e.kind = "ProductWithdrawn" -> [catalogue EXCEPT ![e.id].active = FALSE]
      [] e.kind = "ProductRestored" -> [catalogue EXCEPT ![e.id].active = TRUE]

ByBarcode(catalogue, code) == {id \in Products(catalogue) : code \in catalogue[id].barcodes}

-----------------------------------------------------------------------------
(***************************************************************************)
(* Choices made at the till.                                               *)
(***************************************************************************)

\* What is tapped is passed over if it is not on offer.
Tap(so_far, option) ==
    IF option \in so_far.options THEN [so_far EXCEPT !.chosen = Append(@, option)] ELSE so_far
ChosenOf(group, chosen) ==
    Through(Tap, [options |-> group.options, chosen |-> << >>], chosen).chosen

\* Every mention of an option counts, also of the same one.
Satisfied(group, chosen) == Len(ChosenOf(group, chosen)) \in group.min .. group.max

Joined(charged, options) == charged \o options

\* The options a line is charged for, group by group; none if any group is
\* not satisfied, and an option of no group is passed over.
ResolveModifiers(groups, chosen) ==
    IF \A g \in DOMAIN groups : Satisfied(groups[g], chosen)
    THEN Through(Joined, << >>, [g \in DOMAIN groups |-> ChosenOf(groups[g], chosen)])
    ELSE << >>

-----------------------------------------------------------------------------
(***************************************************************************)
(* A pasted file, row by row: each cell is absent, readable or not.        *)
(***************************************************************************)

\* A price cell is never optional; a unit or a rate may be left to a default.
RowReads(row) ==
    /\ row.name = "readable"
    /\ row.price = "readable"
    /\ row.unit # "unreadable"
    /\ row.vat # "unreadable"

\* What is to be imported, and the line of every row that cannot be; lines
\* count from one and the first is the header.
FromDelimited(rows) ==
    [products |-> SelectSeq(rows, RowReads),
     problems |-> {n + 1 : n \in {i \in DOMAIN rows : ~RowReads(rows[i])}}]

-----------------------------------------------------------------------------
(***************************************************************************)
(* Which of two devices' edits of one product stands.                      *)
(***************************************************************************)

ResolveEdit(a, b) ==
    IF a.server_seq > b.server_seq THEN a
    ELSE IF a.server_seq < b.server_seq THEN b
    ELSE IF a.device >= b.device THEN a ELSE b

LatestOf(edits) == Through(ResolveEdit, Head(edits), Tail(edits))
=============================================================================
