-------------------------------- MODULE MCOAuth2 --------------------------------
EXTENDS OAuth2

CONSTANTS app, alice, good, bad

MCApps == {<<app, good>>}
MCUsers == {<<alice, good>>, <<alice, bad>>}
=============================================================================
