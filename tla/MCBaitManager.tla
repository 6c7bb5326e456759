--------------------------- MODULE MCBaitManager ---------------------------
EXTENDS BaitManager
CONSTANTS ssh, ali, key, ls, cd
MCBaits == {ssh, ali}
MCParts == {key}
MCCmds == {ls, cd}
MCTextOf == (ssh :> << <<ssh>> >>) @@ (ali :> << <<ali>>, <<key>>, <<>> >>)
=============================================================================
