---------------------------- MODULE MCBackOffice ----------------------------
(* Small instances of BackOffice for TLC. *)
EXTENDS BackOffice, TLC

MCPaymentOf == [i \in Invoices |-> IF i = "i1" THEN 10 ELSE 20]

Return(invoice, date, value, gbp) ==
    [invoice |-> invoice, date |-> date, value |-> value, gbp |-> gbp,
     settled |-> TRUE]

\* Two for one date, one that was not settled and one for no known invoice.
MCReturns ==
    {Return("i1", 1, 5, TRUE), Return("i1", 2, 7, TRUE), Return("i1", 2, 8, FALSE),
     Return("i2", 3, 9, TRUE), Return("i9", 1, 1, TRUE),
     [Return("i1", 4, 1, TRUE) EXCEPT !.settled = FALSE]}

Query(period, year, month) == [period |-> period, year |-> year, month |-> month]

\* Four that are answered, three of them by way of the queue, and two that are
\* turned down.
MCQueries ==
    {Query("all", 0, 0), Query("year", 1, 0), Query("monthInYear", 1, 2),
     Query("monthInYear", 2, 1), Query("year", 0, 0), Query("monthInYear", 2, 3)}
=============================================================================
