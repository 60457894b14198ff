----------------------------- MODULE MCTerminal -----------------------------
EXTENDS TerminalProps

AllKeys == {"a", "tab", "backspace", "enter", "ctrl_l", "up", "down"}
=============================================================================
