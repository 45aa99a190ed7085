----------------------------- MODULE MCCatalogue -----------------------------
(***************************************************************************)
(* The catalogue alone, for what its rebuild does.                         *)
(***************************************************************************)
EXTENDS Catalogue

CONSTANTS o1, o2,  \* listings
          m1, m2,  \* models
          a1, a2,  \* axes
          v1, v2,  \* values
          g1       \* a barcode

\* Readings of one model that say both axes and no barcode.
Full == {r \in Reading : /\ r.gtin = Unknown /\ r.model = m1
                         /\ \A a \in Axis : r.axes[a] # Unknown}
=============================================================================
