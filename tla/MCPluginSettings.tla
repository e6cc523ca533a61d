-------------------------- MODULE MCPluginSettings --------------------------
EXTENDS PluginSettings, TLC

\* A port and the number above the ports that is truncated to it.
SomeNumbers == {5900, 5900 + Width}

\* On each side of what the versions bring: streams, windowless plugins, scripts.
SomeMinors == {7, 11, 14}
=============================================================================
