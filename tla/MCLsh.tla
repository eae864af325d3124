------------------------------- MODULE MCLsh --------------------------------
(* Up to four processes: a pipeline of four, a background command beside one  *)
(* of three, or two pipelines of two.                                         *)
EXTENDS Lsh

Job(n, background, bad) == [n |-> n, background |-> background, bad |-> bad,
                            rstdin |-> "none", rstdout |-> "none"]

SmallJobs == {Job(1, TRUE, {}), [Job(1, FALSE, {1}) EXCEPT !.rstdout = "opens"],
              [Job(1, FALSE, {}) EXCEPT !.rstdin = "fails"],
              [Job(2, FALSE, {}) EXCEPT !.rstdin = "opens", !.rstdout = "opens"],
              Job(2, FALSE, {2}), Job(3, FALSE, {}), Job(3, FALSE, {2}),
              Job(4, FALSE, {}), Job(4, FALSE, {3})}
=============================================================================
