----------------------------- MODULE MCPlatform -----------------------------
\* PlatformParts for TLC.
EXTENDS PlatformParts, TLC

CONSTANTS apiKey, webhook

\* One kind with a limit of one (FREE: maxOAuthApps) and one with a higher.
MCMax == (apiKey :> 2) @@ (webhook :> 1)

=============================================================================
