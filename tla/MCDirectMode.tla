---------------------------- MODULE MCDirectMode ----------------------------
(* Command lines of either mode. *)
EXTENDS DirectMode

CONSTANTS proxy

MCAppArgs == {<<>>, <<NoHost, proxy>>, <<proxy, HDHR>>}

MCTunerArgs ==
    {<<>>, <<HDHR>>, <<proxy>>, <<HDHR, "-direct">>, <<NoHost, "-direct">>,
     <<"-direct", HDHR>>, <<HDHR, "-direct", proxy>>}
=============================================================================
