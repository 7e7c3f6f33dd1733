----------------------------- MODULE MCResolver -----------------------------
(* The zones ".", "com", and below that:                                     *)
(*   a      has the name w; its nameserver nb is in b, without glue          *)
(*   b      has nb, with glue, and v, an alias of w                          *)
(*   k      is served by a broken server and has the names y and y2          *)
(*   p, q   each have their nameserver in the other, both without glue       *)
EXTENDS Resolver, TLC

CONSTANTS com, a, b, k, p, q, w, v, x, nc, nb, nk, y, y2, np, nq,
          r1, r2, c1, b1, k1, d1, f1

MCNames == {Root, com, a, b, k, p, q, w, v, x, nc, nb, nk, y, y2, np, nq}
MCUnder ==
  [n \in MCNames |-> {n, Root} \cup (IF n = Root THEN {} ELSE {com}) \cup
     CASE n \in {w, x}       -> {a}
       [] n \in {nb, v}      -> {b}
       [] n \in {nk, y, y2}  -> {k}
       [] n = np             -> {p}
       [] n = nq             -> {q}
       [] OTHER              -> {}]
MCZones == {Root, com, a, b, k, p, q}
MCNs == (Root :> {}) @@ (com :> {nc}) @@ (a :> {nb}) @@ (b :> {nb})
          @@ (k :> {nk}) @@ (p :> {nq}) @@ (q :> {np})
MCGlue == [z \in MCZones |-> IF z \in {com, b, k} THEN MCNs[z] ELSE {}]
MCHosts == [s \in Addrs |-> CASE s \in {r1, r2} -> {Root}
                             [] s = c1 -> {com}
                             [] s = b1 -> {a, b}
                             [] OTHER -> {}]
MCExisting == MCNames \ {x}
MCTarget == [n \in MCNames |-> IF n = v THEN w ELSE n]
MCAddress == [n \in MCNames |-> CASE n = w  -> {d1}
                                 [] n = nc -> {c1}
                                 [] n = nb -> {b1}
                                 [] n = nk -> {k1}
                                 [] OTHER  -> {}]

Says(answers) == Body("ok", answers, {}, {})
Refers(d, n, glue) == Body("ok", {}, {Rr(d, "NS", n)}, glue)

\* Wrong and foreign answers, aliases in and out of the zone, and referrals to
\* the zone itself, to another zone, and to one below with or without glue.
MCJunk ==
  {Says({Rr(y, "A", k1), Rr(w, "A", k1)}),
   Says({Rr(w, "A", k1)}),
   Says({Rr(y, "CNAME", v), Rr(w, "A", k1)}),
   Says({Rr(y, "CNAME", y2)}),
   Says({Rr(y2, "CNAME", y)}),
   Refers(k, nk, {}),
   Refers(a, nk, {Rr(nk, "A", k1)}),
   Refers(y, nk, {Rr(nk, "A", k1)}),
   Refers(y, nb, {Rr(nb, "A", k1)}),
   Refers(y, y2, {}),
   Body("nxdomain", {}, {}, {})}

MCQuestions ==
  {[name |-> n, type |-> "A"] : n \in {w, v, x, y, np}} \cup
  {[name |-> w, type |-> "TXT"]}
MCSound == MCNames \ {k, nk, y, y2}
MCHealthy == {w, v, x, nb}
MCDetour == [n \in MCNames |-> IF n = v THEN 3 ELSE 0]
MCNesting == [n \in MCNames |-> IF n \in {w, v, x} THEN 1 ELSE 0]
=============================================================================
