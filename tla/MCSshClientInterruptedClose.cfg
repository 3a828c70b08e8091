\* Ctrl+C reaches the main thread while close() is ending the session.
CONSTANTS
  c1 = c1
  c2 = c2
  Clients = {c1, c2}
  Limit = 2
  Main = {c1}
  InterruptPoints <- WhileClosing
SPECIFICATION Spec
INVARIANT AllSlotsBack
