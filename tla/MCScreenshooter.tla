---------------------------- MODULE MCScreenshooter ----------------------------
EXTENDS WestonScreenshooter

\* Compositors with everything, without a shooter, without shared memory,
\* without an output, and with the DP-1 output first, second or missing.
MCAnnouncements ==
    {<<"shm", "shooter", "o1", "dp1">>, <<"dp1", "shooter", "o1", "shm">>,
     <<"o1", "shm", "shooter">>, <<"shm", "shooter">>,
     <<"shm", "dp1">>, <<"shooter", "dp1">>}
================================================================================
