---------------------------- MODULE MCVectorBinary ----------------------------
(***************************************************************************)
(* Instances of VectorBinary for TLC: the children's series tables and the *)
(* sample values.  Each .cfg picks one matching and one operator.          *)
(***************************************************************************)
EXTENDS VectorBinary, TLC

\* A label set over {__name__, x, y}; "" leaves the label out.
L(name, x, y) == [n \in {"__name__", "x", "y"} |->
                    IF n = "__name__" THEN name ELSE IF n = "x" THEN x ELSE y]

\* lhs: two series of metric a sharing x="1"; the second also has y.
MCLhs == (0 :> L("a", "1", "")) @@ (1 :> L("a", "1", "2"))

\* rhs: b{x="1"} matches both lhs series on x; b{x="2"} and c{x="2",y="1"}
\* share the signature x="2".
MCRhs == (0 :> L("b", "1", "")) @@ (1 :> L("b", "2", "")) @@ (2 :> L("c", "2", "1"))

\* rhs for group_left(y): as MCRhs, but b{x="1"} carries y="c", which the
\* result copies onto its lhs partners in place of their own y.
MCRhsY == (0 :> L("b", "1", "c")) @@ (1 :> L("b", "2", "")) @@ (2 :> L("c", "2", "1"))

\* Set operations: lhs a{x="1"}, a{x="2"}, rhs b{x="1"}, b{x="1",y="1"}
\* (identical when y is ignored).
MCSetLhs == (0 :> L("a", "1", "")) @@ (1 :> L("a", "2", ""))
MCSetRhs == (0 :> L("b", "1", "")) @@ (1 :> L("b", "1", "1"))

\* One series a side: a{x="1"} and b{x="1"}.
MCOneL == 0 :> L("a", "1", "")
MCOneR == 0 :> L("b", "1", "")

\* rhs b{x="1"}, b{x="2"}: one partner for each series of MCSetLhs.
MCPairR == (0 :> L("b", "1", "")) @@ (1 :> L("b", "2", ""))

\* Evaluation timestamps of the query range.
MCSteps == <<0, 1>>

\* Native histograms: one, and two of different schemas.
MCHist1 == {[schema |-> "exponential", val |-> 1]}
MCHist == {[schema |-> "exponential", val |-> 1], [schema |-> "custom", val |-> 2]}

=============================================================================
