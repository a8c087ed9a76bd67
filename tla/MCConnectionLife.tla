-------------------------- MODULE MCConnectionLife --------------------------
EXTENDS ConnectionLife
MCHosts == <<"h1", "h2">>
=============================================================================
