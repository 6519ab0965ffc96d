--------------------------- MODULE MCPushNotifications ---------------------------
EXTENDS PushNotifications

CONSTANTS t, u, alice, bob, n1, n2, n3, n4

\* three notifications of a task, one of them in another scope, and a message
\* without a task
MCFor(n) == CASE n = n3 -> <<bob, t>> [] n = n4 -> <<>> [] OTHER -> <<alice, t>>
===============================================================================
