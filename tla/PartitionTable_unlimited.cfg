SPECIFICATION Spec
CONSTANTS
  Names = {boot, rootfs}
  Hidden = Hidden
  Sizes = {1, 2}
  Grow = Grow
  Unlimited = Unlimited
  MaxLines = 4
INVARIANT UnlimitedIsKept
