SPECIFICATION Spec
CONSTANTS
  LEVELS = 3
  ENTRY_COUNT = 2
  PAGE_SIZE_4K = 4096
  SMALL_FLUSH_THRESHOLD = 1
  Frame <- MC_Frame
  NoFrame <- MC_NoFrame
  VAddr <- MC_VAddr
  Target <- MC_Target
  StaleTable <- MC_StaleTable
  AllocChoice <- MC_AllocChoice
  align_down <- MC_align_down
  PTE <- MC_PTE
  Zero <- MC_Zero
  PAddr <- MC_PAddr
  PA0 <- MC_PA0
  Flags <- MC_Flags
  pte_new_page <- Rv64_new_page
  pte_new_table <- Rv64_new_table
  pte_paddr <- Rv64_paddr
  pte_flags <- Rv64_flags
  pte_set_paddr <- Rv64_set_paddr
  pte_set_flags <- Rv64_set_flags
  pte_is_unused <- Rv64_is_unused
  pte_is_present <- Rv64_is_present
  pte_is_huge <- Rv64_is_huge
PROPERTIES ImplementsAddressSpace
