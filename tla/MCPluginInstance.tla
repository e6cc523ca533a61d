-------------------------- MODULE MCPluginInstance --------------------------
EXTENDS PluginInstance, TLC

\* A port, the number 2^16 above it, and the two sides of zero.
SomeNumbers == {-1, 0, 5900, 5900 + Width}
=============================================================================
