--------------------------- MODULE MCControllerWin ---------------------------
EXTENDS ControllerWin, TLC

TwoSessions == 1 .. 2

\* A variable whose name begins like that of the proxy, and one like both.
ProxyUser == <<"SPICE", "PROXY", "USER">>
Spice == <<"SPICE">>
SomeVariables == {<<"HOME">>, Spice, ProxyUser, NamedPipe, ProxyVariable}

\* A browser that was given a proxy's user, then a pipe and a proxy of its own.
SomeEnvironment ==
    <<Entry(<<"HOME">>, 0), Entry(ProxyUser, 0), Entry(NamedPipe, 0), Entry(ProxyVariable, 0)>>
=============================================================================
