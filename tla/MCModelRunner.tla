--------------------------- MODULE MCModelRunner ---------------------------
(* Values of the constants of ModelRunner for TLC.                         *)
EXTENDS ModelRunner

CONSTANTS k1, k2, w1, w2, a, b, h1, h2

MCExpected == [wallet |-> w1, model_id |-> a, hotkey |-> h1]

\* The expected wallet has signed for node k1, and many a statement that does not
\* authorize this connection, or does so in a form the check cannot read.
Signed(w, p, k, m, h, e) ==
  [wallet |-> w, payload |-> p, cert_pub |-> k, model_id |-> m, hotkey |-> h,
   expires_at |-> e]
MCIssued == {Signed(w1, "object", k1, a, h1, "number"),
             Signed(w1, "object", k1, a, h1, "garbage"),
             Signed(w1, "object", k2, b, h1, "none"),
             Signed(w1, "object", k2, a, h2, "none"),
             Signed(w1, "object", "garbage", a, h1, "none"),
             Signed(w1, "other JSON", k1, a, h1, "none"),
             Signed(w1, "no JSON", k1, a, h1, "none"),
             Signed(w2, "object", k2, a, h1, "number")}
=============================================================================
