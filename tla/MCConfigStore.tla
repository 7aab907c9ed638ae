--------------------------- MODULE MCConfigStore ---------------------------
(***************************************************************************)
(* Values for ConfigStore's parameters.                                    *)
(***************************************************************************)
EXTENDS ConfigStore

\* The first start finds no file, or one an operator wrote without a local
\* key: with or without a user key, with or without the intervals; or with an
\* external IP.
FreshHost ==
  {Absent} \union
    {Good([ZeroConfig EXCEPT !.userKey = u, !.ticks = t]) : u, t \in BOOLEAN} \union
    {Good([DefaultConfig EXCEPT !.userKey = TRUE, !.ip = TRUE])}

\* The README's sample, with the user key filled in.
SampleFile == {Good([DefaultConfig EXCEPT !.localKey = SampleKey, !.userKey = TRUE])}

\* Either of them.
AnyFirstFile == FreshHost \union SampleFile
=============================================================================
