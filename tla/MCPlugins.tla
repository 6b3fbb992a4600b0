------------------------------- MODULE MCPlugins -------------------------------
EXTENDS Plugins

\* Compositors with everything, without a shooter, without shared memory,
\* without an output, and with the DP-1 output first, second or missing.
MCAnnouncements ==
    {<<"shm", "shooter", "o1", "dp1">>, <<"dp1", "shooter", "o1", "shm">>,
     <<"o1", "shm", "shooter">>, <<"shm", "shooter">>,
     <<"shm", "dp1">>, <<"shooter", "dp1">>}

\* Complete documents, with and without a section or a value of the wrong type, an
\* error as text, and errors as JSON.
MCDocuments ==
    LET full == [json |-> TRUE, shape |-> "object", has |-> Health!Keys,
                 mistyped |-> {}, status |-> "ok"]
        error == [full EXCEPT !.has = {}, !.status = "error"]
    IN  {full, [full EXCEPT !.shape = "list"], [full EXCEPT !.has = @ \ {"tcp"}],
         [full EXCEPT !.has = @ \ {"sched"}], [full EXCEPT !.mistyped = {"cores"}],
         Health!NoDocument, error, [error EXCEPT !.shape = "{}"],
         [error EXCEPT !.shape = "null"]}
================================================================================
