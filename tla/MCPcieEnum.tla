----------------------------- MODULE MCPcieEnum -----------------------------
EXTENDS PcieEnum

Device(class, bars) == [class |-> class, header |-> 0, bars |-> bars]

\* BARs below a page as on the board, of several pages, of a whole window and
\* beyond one, and more than one BAR; a header of another type.
MCEndpoints == {
  Device(TTY, <<1, 0, 0, 0>>), Device(TTY, <<70, 6, 0, 0>>),
  Device(KEYBOARD, <<1, 0, 0, 0>>), Device(KEYBOARD, <<3, 0, 5, 2>>),
  Device(NVM, <<1, 0, 0, 0>>), Device(NVM, <<64, 0, 0, 0>>),
  [class |-> "other", header |-> 2, bars |-> <<1, 0, 0, 0>>], Nothing}

MCBoards == [Ports -> MCEndpoints]

=============================================================================
