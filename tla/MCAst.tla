------------------------------- MODULE MCAst -------------------------------
EXTENDS Ast

MCHash(h) == <<h>>
=============================================================================
