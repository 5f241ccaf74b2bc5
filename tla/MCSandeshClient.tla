-------------------------- MODULE MCSandeshClient --------------------------
\* Two collectors, in two lists: an update keeps the first collector or
\* changes it, and shortens the list or lengthens it.
EXTENDS SandeshClient

CONSTANTS c1, c2

Lists == {<<c1, c2>>, <<c2>>}
=============================================================================
