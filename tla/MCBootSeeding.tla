---------------------------- MODULE MCBootSeeding ----------------------------
(* Three releases: the second drops a rule of the first benchmark, adds one,   *)
(* and brings a second benchmark in place of one that was skipped; it is     *)
(* followed by one that is no system profile.  The third has a broken file.  *)
EXTENDS BootSeeding, TLC

CONSTANTS v1, v2, v3, a, b, c, d, cis, bp, extra

MCFile(kind, title, system, rules) ==
  [kind |-> kind, title |-> title, system |-> system, rules |-> rules]

MCBenchmarks ==
  v1 :> <<MCFile("good", cis, TRUE, {a, b}), MCFile("skipped", bp, TRUE, {})>> @@
  v2 :> <<MCFile("good", cis, TRUE, {b, c}), MCFile("good", bp, TRUE, {d}),
          MCFile("good", extra, FALSE, {a})>> @@
  v3 :> <<MCFile("good", cis, TRUE, {a}), MCFile("broken", bp, TRUE, {b})>>
=============================================================================
