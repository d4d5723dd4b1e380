--------------------------- MODULE MCSessionClient ---------------------------
(***************************************************************************)
(* Small instances of SessionClient: public chat, and whispers to which    *)
(* the client is or is not a party.                                        *)
(***************************************************************************)
EXTENDS SessionClient

CONSTANT c1

MCOneClient == {c1}
MCChat == {Client, {}}
MCPublicChat == {Client}

=============================================================================
