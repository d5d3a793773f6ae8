CONSTANTS
  FailSteps = {"alloc_etherdev", "alloc_tc6", "alloc_buffers", "sw_reset", "unmask_interrupts", "check_capability", "mdiobus_register", "phy_connect", "init_lan865x", "enable_data", "buffer_status", "spi_thread", "request_irq", "zarfe", "nodeid_gpios", "set_macaddr", "register_netdev", "set_nodeid", "ptp_alloc", "ptp_clock", "ptp_thread", "misc_register"}
  IgnoredFail = TRUE
  MaxWork = 2
  NodeIdPins = {{}, {0, 3}}
SPECIFICATION Spec
INVARIANTS UsersSafe NothingLeft BoundIsConfigured
CHECK_DEADLOCK FALSE
