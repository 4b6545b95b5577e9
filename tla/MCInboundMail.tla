---------------------------- MODULE MCInboundMail ----------------------------
EXTENDS InboundMail
=============================================================================
