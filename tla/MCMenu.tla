------------------------------- MODULE MCMenu -------------------------------
\* Two profiles and a card with a cartridge image, one that ends early, a core
\* and the ROM that the board came with.  The settings of the first profile are
\* those of a machine that ran with a cartridge in.
EXTENDS Menus

CONSTANTS c1, c2, r1, o1, x1

OneRom == {<<o1>>}
FactoryContents ==
  [i \in Item |-> CASE i = SettingsAt(0) -> <<FALSE, TRUE, c1, x1>>
                    [] i = SettingsAt(1) -> <<TRUE, FALSE, "off", x1>>
                    [] i \in {OsAt(0), OsAt(1)} -> <<o1>>
                    [] OTHER -> <<"factory">>]
=============================================================================
