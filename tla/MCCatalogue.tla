---- MODULE MCCatalogue ----
(* Small instances of Catalogue for TLC: what suppliers may send.          *)
EXTENDS Catalogue, TLC

CONSTANTS c1, c2, s1, s2, x, b, red, blue, green, words1, words2

\* A row gives a fact by name; None stands for an empty cell.
Item(sku, price) == "sku" :> sku @@ "price" :> price
Described(row) == row @@ "text" :> words1
Style(sku, option) == "style" :> x @@ "sku" :> sku @@ "option" :> option @@ "price" :> Cell(700)
Photo(sku) == "photo" :> sku
Coded(row) == row @@ "barcode" :> b

\* The same product from several suppliers, in words and in cells, and its photo.
Suppliers ==
  { <<Item(s1, Words(5))>>, <<Described(Item(s1, Cell(500)))>>, <<Described(Item(s1, Cell(5)))>>,
    <<Photo(s1)>> }
\* Products that lack something.
Gaps == { <<Item(s1, None), Item(s2, Cell(500))>>, <<Described(Item(s2, None))>> }
\* Products known by a barcode.
Barcodes ==
  { <<Coded(Item(None, Cell(500)))>>, <<Described(Item(s1, Cell(500)))>>,
    <<Coded(Item(s1, Cell(600)))>> }
\* Revisions of one style.
Revisions ==
  { <<Style(s1, red), Style(s2, blue)>>, <<Style(s1, green)>>, <<Style(s2, red), Style(s1, blue)>>,
    <<Style(None, blue)>> }

MCBatches == {Suppliers, Gaps, Barcodes, Revisions}
MCAnswers == [n \in Cores |-> IF n = "sku" THEN {s1, s2}
                              ELSE IF n = "price" THEN {Words(5), Cell(600)} ELSE {words2}]
MCDecidable == {{s1, b}, {s1, s2}}
====
