--------------------------- MODULE MCScalarBinary ---------------------------
(***************************************************************************)
(* Instances of ScalarBinary for TLC.                                      *)
(***************************************************************************)
EXTENDS ScalarBinary, TLC

\* A label set over {__name__, job, env}.
LS(name, job, env) == [n \in {"__name__", "job", "env"} |->
                         IF n = "__name__" THEN name ELSE IF n = "job" THEN job ELSE env]

\* The selector child has one series, a{job="j"}.
MCVecSeries == <<LS("a", "j", "")>>

\* absent(up{job="a", job!="b"}) with the filter env="p" pushed down by
\* the optimizer.
MCAbsentArg ==
  [kind |-> "VectorSelector",
   matchers |-> <<[name |-> "__name__", type |-> "MatchEqual", value |-> "up"],
                  [name |-> "job", type |-> "MatchEqual", value |-> "a"],
                  [name |-> "job", type |-> "MatchNotEqual", value |-> "b"]>>,
   filters |-> <<[name |-> "env", type |-> "MatchEqual", value |-> "p"]>>]

\* Step contents: nothing, one float or one histogram, by series id.
None == [f |-> NoIds, h |-> NoIds]
F(i, v) == [f |-> [j \in {i} |-> v], h |-> NoIds]
H(i) == [f |-> NoIds, h |-> [j \in {i} |-> "h1"]]

MCVecContents == {None, F(0, 1), F(0, 2), H(0)}
MCXContents == {None, F(0, 1), H(0)}
\* w: series 0 absent, 1 or a histogram; series 1 absent or 2.
MCWContents ==
  {[f |-> [j \in {i \in {0, 1} : (i = 0 /\ a = "f") \/ (i = 1 /\ b)} |-> IF j = 0 THEN 1 ELSE 2],
    h |-> [j \in {i \in {0} : a = "h"} |-> "h1"]] :
     a \in {"none", "f", "h"}, b \in BOOLEAN}

MCQueries ==
  { [op |-> "MUL", bool |-> FALSE, side |-> "Right", vec |-> "selector"],  \* a * scalar(w)
    [op |-> "DIV", bool |-> FALSE, side |-> "Left", vec |-> "selector"],   \* scalar(w) / a
    [op |-> "GTR", bool |-> FALSE, side |-> "Right", vec |-> "selector"],  \* a > scalar(w)
    [op |-> "LSS", bool |-> TRUE, side |-> "Left", vec |-> "absent"],      \* scalar(w) < bool absent(..)
    [op |-> "GTE", bool |-> TRUE, side |-> "Both", vec |-> "scalar"] }     \* scalar(x) >= bool scalar(w)

MCTimestamps == <<10, 20, 30>>

=============================================================================
