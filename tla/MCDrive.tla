------------------------------ MODULE MCDrive ------------------------------
EXTENDS DriveService

MCHeader(m, p, s, f) == [magic |-> m, pars |-> p, secSize |-> s, flags |-> f]

\* image |-> extension, bytes, read-only attribute, header
Card == [
  sd   |-> <<"other",   784, FALSE, MCHeader(662, 48, 128, 0)>>,
  dd   |-> <<"other",  1168, FALSE, MCHeader(662, 72, 256, 0)>>,
  ro   |-> <<"other",   784, TRUE,  MCHeader(662, 48, 128, 0)>>,
  huge |-> <<"other",  1424, FALSE, MCHeader(662, 88, 512, 0)>>,
  long |-> <<"other",   784, FALSE, MCHeader(662, 88, 128, 0)>>,
  tiny |-> <<"other",     8, FALSE, MCHeader(662, 48, 128, 0)>>,
  xfd  |-> <<"XFD",     768, FALSE, MCHeader(0, 0, 0, 0)>>,
  odd  |-> <<"XFD",     768, FALSE, MCHeader(0, 0, 0, 1)>>,
  xex  |-> <<"other",   400, FALSE, MCHeader(65535, 8192, 9, 0)>>,
  atx  |-> <<"ATX",    2000, FALSE, MCHeader(21569, 22584, 1, 0)>>,
  rotx |-> <<"ATX",    2000, TRUE,  MCHeader(21569, 22584, 1, 0)>>]

MCExt        == [i \in Image |-> Card[i][1]]
MCSize       == [i \in Image |-> Card[i][2]]
MCReadOnly   == [i \in Image |-> Card[i][3]]
MCCardHeader == [i \in Image |-> Card[i][4]]
MCOneScribble == {MCHeader(0, 0, 0, 1)}
MCScribble   == {MCHeader(0, 0, 0, 0), MCHeader(0, 0, 0, 1)}
=============================================================================
