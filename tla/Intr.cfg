SPECIFICATION LiveSpec
CONSTANTS
  Irqs = {1, 15}
  Softs = {3, 128}
  Managed = {3}
  Enabling = "after_eoi"
  KbLine = 1
  Bios = "main"
  MaxDepth = 2
INVARIANTS MainInv PicsIdle KeyboardNotStuck
PROPERTIES HandlerServesRequest UrgentIsServed
